---- MODULE Spec2Model ----
(***************************************************************************)
(* A model of the chess rules engine of ChessEngine.py: the ChessGame      *)
(* object (board, side to move, cached king squares, move history,         *)
(* en-passant target and log, castling rights and log, derived check and   *)
(* pin facts, terminal flags), its three operations execute_move,          *)
(* undo_move and get_valid_moves, and the Move value object.               *)
(*                                                                         *)
(* Rows and columns are 0..7 as in the source: row 0 is black's home rank  *)
(* and row 7 white's.  A square is the pair <<row, col>>; the empty tuple  *)
(* () of the source is <<>>.                                               *)
(***************************************************************************)
EXTENDS Integers, Sequences, FiniteSets, TLC

VARIABLES
    chessboard,             \* self.chessboard
    is_white_turn,          \* self.is_white_turn
    move_history,           \* self.move_history
    white_king_pos,         \* self.white_king_pos
    black_king_pos,         \* self.black_king_pos
    is_checkmate,           \* self.is_checkmate
    is_stalemate,           \* self.is_stalemate
    in_check,               \* self.in_check (the attribute, a bool)
    enpassant_possible,     \* self.enpassant_possible
    enpassant_log,          \* self.enpassant_log
    current_castle_rights,  \* the values of the object self.current_castle_rights refers to
    castle_rights_log,      \* self.castle_rights_log (the values of its entries)
    rights_ref,             \* which log entry self.current_castle_rights IS (0: an object of its own)
    script,                 \* the caller: the opening line it plays first
    last_call,              \* the caller: the operation that returned last
    returned,               \* the caller: the list the last get_valid_moves returned (main: valid_moves)
    raised,                 \* the caller: whether the last operation raised
    search,                 \* the call of evaluateMoves in progress, with the game object it works on
    reference,              \* the same call with the cutoff of lines 133-134 removed
    pc,                     \* main: where it stands ("setup", "events" in the loop, "get" inside return_queue.get())
    game_over,              \* main: game_over
    ai_thinking,            \* main: ai_thinking
    move_undone,            \* main: move_undone
    move_made,              \* main: move_made
    human_turn,             \* main: human_turn, as line 54 computed it last
    board_state_counts,     \* main: board_state_counts
    move_finder_process,    \* main: move_finder_process (the state of the process)
    return_queue,           \* main: return_queue (what has been put and not got)
    keys                    \* how many key presses main has handled

vars == <<chessboard, is_white_turn, move_history, white_king_pos, black_king_pos,
          is_checkmate, is_stalemate, in_check, enpassant_possible, enpassant_log, current_castle_rights,
          castle_rights_log, rights_ref, script, last_call, returned, raised,
          search, reference, pc, game_over, ai_thinking, move_undone, move_made,
          human_turn, board_state_counts, move_finder_process, return_queue, keys>>

\* the attributes of the game object of main
game_vars == <<chessboard, is_white_turn, move_history, white_king_pos, black_king_pos,
               is_checkmate, is_stalemate, in_check, enpassant_possible, enpassant_log,
               current_castle_rights, castle_rights_log, rights_ref>>

\* ChessAI.py: the searches
ai_vars == <<search, reference>>

\* ChessMain.py: the locals of main (valid_moves is returned) and its process
main_vars == <<pc, game_over, ai_thinking, move_undone, move_made, human_turn,
               board_state_counts, move_finder_process, return_queue, keys>>

\* Free plies the caller plays after its opening line.
MaxPly == 1

\* How many times z or r is pressed in the loop of main.
MaxKeys == 1

Rows == 0..7

(***************************************************************************)
(* Pieces: two-character strings, colour then kind.                        *)
(***************************************************************************)
WhitePieces == {"wP", "wR", "wN", "wB", "wQ", "wK"}
BlackPieces == {"bP", "bR", "bN", "bB", "bQ", "bK"}

\* piece[0]
Colour(piece) ==
    IF piece \in WhitePieces THEN "w" ELSE IF piece \in BlackPieces THEN "b" ELSE "-"

\* piece[1]
Kind(piece) ==
    CASE piece \in {"wP", "bP"} -> "P"
      [] piece \in {"wR", "bR"} -> "R"
      [] piece \in {"wN", "bN"} -> "N"
      [] piece \in {"wB", "bB"} -> "B"
      [] piece \in {"wQ", "bQ"} -> "Q"
      [] piece \in {"wK", "bK"} -> "K"
      [] OTHER -> "-"

Abs(n) == IF n < 0 THEN -n ELSE n

OnBoard(row, col) == 0 <= row /\ row <= 7 /\ 0 <= col /\ col <= 7

\* The lists f[1], ..., f[8] one after the other: what a loop of eight rounds
\* appends, round by round.
Cat8(f) ==
    ((f[1] \o f[2]) \o (f[3] \o f[4])) \o ((f[5] \o f[6]) \o (f[7] \o f[8]))

InitialRows ==
    << <<"bR", "bN", "bB", "bQ", "bK", "bB", "bN", "bR">>,
       <<"bP", "bP", "bP", "bP", "bP", "bP", "bP", "bP">>,
       <<"--", "--", "--", "--", "--", "--", "--", "--">>,
       <<"--", "--", "--", "--", "--", "--", "--", "--">>,
       <<"--", "--", "--", "--", "--", "--", "--", "--">>,
       <<"--", "--", "--", "--", "--", "--", "--", "--">>,
       <<"wP", "wP", "wP", "wP", "wP", "wP", "wP", "wP">>,
       <<"wR", "wN", "wB", "wQ", "wK", "wB", "wN", "wR">> >>

InitialBoard == [row \in Rows |-> [col \in Rows |-> InitialRows[row + 1][col + 1]]]

CastlePermissions(wks, bks, wqs, bqs) ==
    [wks |-> wks, bks |-> bks, wqs |-> wqs, bqs |-> bqs]

(***************************************************************************)
(* Move.__init__                                                           *)
(***************************************************************************)
Move(start_square, end_square, board, is_enpassant_move, is_castle_move) ==
    LET start_row == start_square[1]
        start_col == start_square[2]
        end_row == end_square[1]
        end_col == end_square[2]
        piece_moved == board[start_row][start_col]
        piece_captured ==
            IF is_enpassant_move
            THEN (IF piece_moved = "bP" THEN "wP" ELSE "bP")
            ELSE board[end_row][end_col]
    IN  [start_row |-> start_row, start_col |-> start_col,
         end_row |-> end_row, end_col |-> end_col,
         piece_moved |-> piece_moved,
         piece_captured |-> piece_captured,
         is_pawn_promotion |-> (piece_moved = "wP" /\ end_row = 0)
                               \/ (piece_moved = "bP" /\ end_row = 7),
         is_enpassant_move |-> is_enpassant_move,
         is_castle_move |-> is_castle_move,
         is_capture |-> piece_captured # "--",
         moveID |-> start_row * 1000 + start_col * 100 + end_row * 10 + end_col]

\* Move.__eq__
MoveEq(a, b) == a.moveID = b.moveID

\* Move.rows_to_ranks and Move.cols_to_files.  A text is the sequence of its
\* characters.
rows_to_ranks == [row \in 0..7 |-> <<"8", "7", "6", "5", "4", "3", "2", "1">>[row + 1]]
cols_to_files == [col \in 0..7 |-> <<"a", "b", "c", "d", "e", "f", "g", "h">>[col + 1]]

\* Move.get_rank_file
get_rank_file(row, col) == <<cols_to_files[col], rows_to_ranks[row]>>

\* Move.get_chess_notation
get_chess_notation(move) ==
    IF move.is_pawn_promotion
    THEN get_rank_file(move.end_row, move.end_col) \o <<"Q">>
    ELSE IF move.is_castle_move
    THEN (IF move.end_col = 1 THEN <<"0", "-", "0", "-", "0">> ELSE <<"0", "-", "0">>)
    ELSE IF move.is_enpassant_move
    THEN <<get_rank_file(move.start_row, move.start_col)[1], "x">>
            \o get_rank_file(move.end_row, move.end_col)
            \o <<" ", "e", ".", "p", ".">>
    ELSE IF move.piece_captured # "--"
    THEN (IF Kind(move.piece_moved) = "P"
          THEN <<get_rank_file(move.start_row, move.start_col)[1], "x">>
                  \o get_rank_file(move.end_row, move.end_col)
          ELSE <<Kind(move.piece_moved), "x">>
                  \o get_rank_file(move.end_row, move.end_col))
    ELSE (IF Kind(move.piece_moved) = "P"
          THEN get_rank_file(move.end_row, move.end_col)
          ELSE <<Kind(move.piece_moved)>> \o get_rank_file(move.end_row, move.end_col))

\* Move.__str__
Move_str(move) ==
    LET end_square == get_rank_file(move.end_row, move.end_col)
    IN  IF move.is_castle_move
        THEN (IF move.end_col = 6 THEN <<"0", "-", "0">> ELSE <<"0", "-", "0", "-", "0">>)
        ELSE IF Kind(move.piece_moved) = "P"
        THEN (IF move.is_capture
              THEN <<cols_to_files[move.start_col], "x">> \o end_square
              ELSE IF move.is_pawn_promotion THEN end_square \o <<"Q">> ELSE end_square)
        ELSE <<Kind(move.piece_moved)>>
                \o (IF move.is_capture THEN <<"x">> ELSE <<>>)
                \o end_square

(***************************************************************************)
(* ChessGame.__init__.  self.pinned_pieces and self.attackers are not part *)
(* of the record: get_valid_moves assigns both (line 179) before anything  *)
(* reads them, so they are carried inside get_valid_moves only.            *)
(***************************************************************************)
NewGame ==
    [chessboard |-> InitialBoard,
     is_white_turn |-> TRUE,
     move_history |-> <<>>,
     white_king_pos |-> <<7, 4>>,
     black_king_pos |-> <<0, 4>>,
     is_checkmate |-> FALSE,
     is_stalemate |-> FALSE,
     in_check |-> FALSE,
     enpassant_possible |-> <<>>,
     enpassant_log |-> << <<>> >>,
     current_castle_rights |-> CastlePermissions(TRUE, TRUE, TRUE, TRUE),
     castle_rights_log |-> << CastlePermissions(TRUE, TRUE, TRUE, TRUE) >>,
     rights_ref |-> 0]

\* board[row][col] = piece
Put(board, row, col, piece) == [board EXCEPT ![row][col] = piece]

(***************************************************************************)
(* ChessGame.update_castle_permissions: the new values of the object       *)
(* self.current_castle_rights refers to.                                   *)
(***************************************************************************)
UpdatedRights(r, move) ==
    LET r1 ==
            IF move.piece_captured = "wR"
            THEN (IF move.end_col = 0 THEN [r EXCEPT !.wqs = FALSE]
                  ELSE IF move.end_col = 7 THEN [r EXCEPT !.wks = FALSE]
                  ELSE r)
            ELSE IF move.piece_captured = "bR"
            THEN (IF move.end_col = 0 THEN [r EXCEPT !.bqs = FALSE]
                  ELSE IF move.end_col = 7 THEN [r EXCEPT !.bks = FALSE]
                  ELSE r)
            ELSE r
    IN  IF move.piece_moved = "wK" THEN [r1 EXCEPT !.wqs = FALSE, !.wks = FALSE]
        ELSE IF move.piece_moved = "bK" THEN [r1 EXCEPT !.bqs = FALSE, !.bks = FALSE]
        ELSE IF move.piece_moved = "wR"
        THEN (IF move.start_row = 7
              THEN (IF move.start_col = 0 THEN [r1 EXCEPT !.wqs = FALSE]
                    ELSE IF move.start_col = 7 THEN [r1 EXCEPT !.wks = FALSE]
                    ELSE r1)
              ELSE r1)
        ELSE IF move.piece_moved = "bR"
        THEN (IF move.start_row = 0
              THEN (IF move.start_col = 0 THEN [r1 EXCEPT !.bqs = FALSE]
                    ELSE IF move.start_col = 7 THEN [r1 EXCEPT !.bks = FALSE]
                    ELSE r1)
              ELSE r1)
        ELSE r1

\* execute_move without the call of line 93
UpdateCastlePermissionsSkipped(g, move) == g

\* The assignments of update_castle_permissions go to the object that
\* self.current_castle_rights refers to: when that object is an entry of
\* castle_rights_log (after undo_move, line 122), the entry changes with it.
update_castle_permissions(g, move) ==
    LET r == UpdatedRights(g.current_castle_rights, move)
    IN  [g EXCEPT !.current_castle_rights = r,
                  !.castle_rights_log =
                      IF g.rights_ref = 0 THEN @ ELSE [@ EXCEPT ![g.rights_ref] = r]]

(***************************************************************************)
(* ChessGame.execute_move                                                  *)
(***************************************************************************)
execute_move(g, move) ==
    LET b1 == Put(Put(g.chessboard, move.start_row, move.start_col, "--"),
                  move.end_row, move.end_col, move.piece_moved)
        b2 == IF move.is_pawn_promotion
              THEN Put(b1, move.end_row, move.end_col,
                       IF Colour(move.piece_moved) = "w" THEN "wQ" ELSE "bQ")
              ELSE b1
        b3 == IF move.is_enpassant_move
              THEN Put(b2, move.start_row, move.end_col, "--")
              ELSE b2
        ep == IF Kind(move.piece_moved) = "P" /\ Abs(move.start_row - move.end_row) = 2
              THEN <<(move.start_row + move.end_row) \div 2, move.start_col>>
              ELSE <<>>
        b4 == IF move.is_castle_move
              THEN IF move.end_col - move.start_col = 2
                   THEN Put(Put(b3, move.end_row, move.end_col - 1,
                                b3[move.end_row][move.end_col + 1]),
                            move.end_row, move.end_col + 1, "--")
                   ELSE Put(Put(b3, move.end_row, move.end_col + 1,
                                b3[move.end_row][move.end_col - 2]),
                            move.end_row, move.end_col - 2, "--")
              ELSE b3
        g1 == [g EXCEPT !.chessboard = b4,
                        !.move_history = Append(@, move),
                        !.is_white_turn = ~@,
                        !.white_king_pos =
                            IF move.piece_moved = "wK"
                            THEN <<move.end_row, move.end_col>> ELSE @,
                        !.black_king_pos =
                            IF move.piece_moved = "bK"
                            THEN <<move.end_row, move.end_col>> ELSE @,
                        !.enpassant_possible = ep,
                        !.enpassant_log = Append(@, ep)]
        g2 == update_castle_permissions(g1, move)
    IN  [g2 EXCEPT !.castle_rights_log =
            Append(@, CastlePermissions(g2.current_castle_rights.wks,
                                        g2.current_castle_rights.bks,
                                        g2.current_castle_rights.wqs,
                                        g2.current_castle_rights.bqs))]

\* list.pop(): the list without its last element
Pop(s) == SubSeq(s, 1, Len(s) - 1)

\* list[-1]
Last(s) == s[Len(s)]

(***************************************************************************)
(* ChessGame.undo_move                                                     *)
(***************************************************************************)
\* lines 102-134: the body, run when the history is not empty
UndoLast(g) ==
    LET move == Last(g.move_history)
        b1 == Put(Put(g.chessboard, move.start_row, move.start_col, move.piece_moved),
                  move.end_row, move.end_col, move.piece_captured)
        b2 == IF move.is_enpassant_move
              THEN Put(Put(b1, move.end_row, move.end_col, "--"),
                       move.start_row, move.end_col, move.piece_captured)
              ELSE b1
        b3 == IF move.is_castle_move
              THEN IF move.end_col - move.start_col = 2
                   THEN Put(Put(b2, move.end_row, move.end_col + 1,
                                b2[move.end_row][move.end_col - 1]),
                            move.end_row, move.end_col - 1, "--")
                   ELSE Put(Put(b2, move.end_row, move.end_col - 2,
                                b2[move.end_row][move.end_col + 1]),
                            move.end_row, move.end_col + 1, "--")
              ELSE b2
        ep_log == Pop(g.enpassant_log)
        rights_log == Pop(g.castle_rights_log)
    IN  [g EXCEPT !.move_history = Pop(@),
                  !.chessboard = b3,
                  !.is_white_turn = ~@,
                  !.white_king_pos =
                      IF move.piece_moved = "wK"
                      THEN <<move.start_row, move.start_col>> ELSE @,
                  !.black_king_pos =
                      IF move.piece_moved = "bK"
                      THEN <<move.start_row, move.start_col>> ELSE @,
                  !.enpassant_log = ep_log,
                  !.enpassant_possible = Last(ep_log),
                  !.castle_rights_log = rights_log,
                  !.current_castle_rights = Last(rights_log),
                  !.rights_ref = Len(rights_log),
                  !.is_checkmate = FALSE,
                  !.is_stalemate = FALSE]

\* undo_move without line 118: the en-passant target is not taken from the log
UndoMoveKeepsTarget(g) ==
    IF Len(g.move_history) # 0
    THEN [UndoLast(g) EXCEPT !.enpassant_possible = g.enpassant_possible]
    ELSE g

\* undo_move with the side to move flipped outside the test of line 101
UndoMoveAlwaysFlips(g) ==
    IF Len(g.move_history) # 0 THEN UndoLast(g) ELSE [g EXCEPT !.is_white_turn = ~@]

undo_move(g) ==
    IF Len(g.move_history) # 0 THEN UndoLast(g) ELSE g

(***************************************************************************)
(* ChessGame.check_for_pins_and_checks                                     *)
(***************************************************************************)
\* directions, line 286
directions ==
    << <<-1, 0>>, <<0, -1>>, <<1, 0>>, <<0, 1>>,
       <<-1, -1>>, <<-1, 1>>, <<1, -1>>, <<1, 1>> >>

\* knight_moves, lines 320 and 457
knight_moves ==
    << <<-2, -1>>, <<-2, 1>>, <<-1, 2>>, <<1, 2>>,
       <<2, -1>>, <<2, 1>>, <<-1, -2>>, <<1, -2>> >>

AllyColour(g) == IF g.is_white_turn THEN "w" ELSE "b"
EnemyColour(g) == IF g.is_white_turn THEN "b" ELSE "w"
KingPos(g) == IF g.is_white_turn THEN g.white_king_pos ELSE g.black_king_pos

\* The test of lines 303-306: the enemy piece of kind enemy_type, i steps
\* along direction j (0..7), attacks the king.
CanAttack(enemy_colour, enemy_type, j, i) ==
    \/ (0 <= j /\ j <= 3 /\ enemy_type = "R")
    \/ (4 <= j /\ j <= 7 /\ enemy_type = "B")
    \/ (i = 1 /\ enemy_type = "P"
          /\ ((enemy_colour = "w" /\ 6 <= j /\ j <= 7)
              \/ (enemy_colour = "b" /\ 4 <= j /\ j <= 5)))
    \/ enemy_type = "Q"
    \/ (i = 1 /\ enemy_type = "K")

\* The inner loop of lines 290-317 from step i on, along direction j.
\* The result is what the ray adds: nothing, one pin or one check.
RECURSIVE ScanRay(_, _, _, _, _)
ScanRay(g, start, j, i, possible_pin) ==
    LET direction == directions[j + 1]
        end_row == start[1] + direction[1] * i
        end_col == start[2] + direction[2] * i
    IN  IF i > 7 \/ ~OnBoard(end_row, end_col)
        THEN [pins |-> <<>>, checks |-> <<>>]
        ELSE LET end_piece == g.chessboard[end_row][end_col]
             IN  IF Colour(end_piece) = AllyColour(g) /\ Kind(end_piece) # "K"
                 THEN IF possible_pin = <<>>
                      THEN ScanRay(g, start, j, i + 1,
                                   <<end_row, end_col, direction[1], direction[2]>>)
                      ELSE [pins |-> <<>>, checks |-> <<>>]
                 ELSE IF Colour(end_piece) = EnemyColour(g)
                 THEN IF CanAttack(EnemyColour(g), Kind(end_piece), j, i)
                      THEN IF possible_pin = <<>>
                           THEN [pins |-> <<>>,
                                 checks |-> << <<end_row, end_col,
                                                 direction[1], direction[2]>> >>]
                           ELSE [pins |-> <<possible_pin>>, checks |-> <<>>]
                      ELSE [pins |-> <<>>, checks |-> <<>>]
                 ELSE ScanRay(g, start, j, i + 1, possible_pin)

\* One round of the knight loop of lines 321-328, offset k (1..8).
KnightCheck1(g, start, k) ==
    LET move == knight_moves[k]
        end_row == start[1] + move[1]
        end_col == start[2] + move[2]
    IN  IF OnBoard(end_row, end_col)
           /\ g.chessboard[end_row][end_col] = (IF g.is_white_turn THEN "bN" ELSE "wN")
        THEN << <<end_row, end_col, move[1], move[2]>> >>
        ELSE <<>>

KnightChecks(g, start) == Cat8([k \in 1..8 |-> KnightCheck1(g, start, k)])

\* pins and checks as the eight rays add to them, ray by ray
Collect(rays) ==
    [pins |-> Cat8([j \in 1..8 |-> rays[j].pins]),
     checks |-> Cat8([j \in 1..8 |-> rays[j].checks])]

\* The loop of lines 287-317 over the eight directions.
ScanAll(g, start) ==
    Collect([j \in 1..8 |-> ScanRay(g, start, j - 1, 1, <<>>)])

\* line 329, with the checks the knight loop appended
Scanned(pins, checks) ==
    [in_check |-> checks # <<>>, pins |-> pins, checks |-> checks]

\* checks of the rays, then those of the knights
WithKnightChecks(rays, knights) ==
    Scanned(rays.pins, rays.checks \o knights)

check_for_pins_and_checks(g) ==
    WithKnightChecks(ScanAll(g, KingPos(g)), KnightChecks(g, KingPos(g)))

(***************************************************************************)
(* The pin lookup every generator starts with (lines 337-342, 419-425,     *)
(* 451-455, 474-479): the last entry of self.pinned_pieces on (row, col).  *)
(***************************************************************************)
RECURSIVE FindPin(_, _, _, _)
FindPin(pinned, row, col, i) ==
    IF i = 0 THEN 0
    ELSE IF pinned[i][1] = row /\ pinned[i][2] = col THEN i
    ELSE FindPin(pinned, row, col, i - 1)

\* list.remove of the entry at index i (1..Len)
RemoveAt(s, i) == SubSeq(s, 1, i - 1) \o SubSeq(s, i + 1, Len(s))

\* piece_pinned, pin_direction and self.pinned_pieces after the lookup;
\* keep: the entry stays in the list (line 423, a queen in get_rook_moves)
PinLookup(pinned, row, col, keep) ==
    LET i == FindPin(pinned, row, col, Len(pinned))
    IN  [piece_pinned |-> i # 0,
         pin_direction |-> IF i # 0 THEN <<pinned[i][3], pinned[i][4]>> ELSE <<>>,
         pinned |-> IF i # 0 /\ ~keep THEN RemoveAt(pinned, i) ELSE pinned]

\* range(a, b) and range(a, b, -1) as sets of columns
Range(a, b) == {i \in Rows : a <= i /\ i < b}
RangeDown(a, b) == {i \in Rows : b < i /\ i <= a}

(***************************************************************************)
(* ChessGame.get_pawn_moves: the en passant test of lines 368-385 (capture *)
(* to the left, side = -1) and 393-410 (capture to the right, side = 1).   *)
(***************************************************************************)
EnPassantAllowed(g, row, col, side) ==
    LET king == KingPos(g)
        king_row == king[1]
        king_col == king[2]
        enemy_color == EnemyColour(g)
        inside_range ==
            IF king_col < col
            THEN (IF side = -1 THEN Range(king_col + 1, col - 1)
                               ELSE Range(king_col + 1, col))
            ELSE (IF side = -1 THEN RangeDown(king_col - 1, col)
                               ELSE RangeDown(king_col - 1, col + 1))
        outside_range ==
            IF king_col < col
            THEN (IF side = -1 THEN Range(col + 1, 8) ELSE Range(col + 2, 8))
            ELSE (IF side = -1 THEN RangeDown(col - 2, -1) ELSE RangeDown(col - 1, -1))
        IsAttacker(square) ==
            Colour(square) = enemy_color /\ (Kind(square) = "R" \/ Kind(square) = "Q")
        attacking_piece ==
            king_row = row /\ \E i \in outside_range : IsAttacker(g.chessboard[row][i])
        blocking_piece ==
            king_row = row
            /\ (\/ \E i \in inside_range : g.chessboard[row][i] # "--"
                \/ \E i \in outside_range :
                       ~IsAttacker(g.chessboard[row][i]) /\ g.chessboard[row][i] # "--")
    IN  ~attacking_piece \/ blocking_piece

\* The captures of lines 363-386 (side = -1) and 388-411 (side = 1).
PawnCaptures(g, row, col, side, piece_pinned, pin_direction) ==
    LET move_amount == IF g.is_white_turn THEN -1 ELSE 1
    IN  IF 0 <= col + side /\ col + side <= 7
           /\ (~piece_pinned \/ pin_direction = <<move_amount, side>>)
        THEN (IF Colour(g.chessboard[row + move_amount][col + side]) = EnemyColour(g)
              THEN << Move(<<row, col>>, <<row + move_amount, col + side>>,
                           g.chessboard, FALSE, FALSE) >>
              ELSE <<>>)
             \o
             (IF <<row + move_amount, col + side>> = g.enpassant_possible
                 /\ EnPassantAllowed(g, row, col, side)
              THEN << Move(<<row, col>>, <<row + move_amount, col + side>>,
                           g.chessboard, TRUE, FALSE) >>
              ELSE <<>>)
        ELSE <<>>

\* PawnAdvances without the two-square advance of lines 358-361
PawnAdvancesOneSquare(g, row, col, piece_pinned, pin_direction) ==
    LET move_amount == IF g.is_white_turn THEN -1 ELSE 1
    IN  IF g.chessboard[row + move_amount][col] = "--"
           /\ (~piece_pinned \/ pin_direction = <<move_amount, 0>>)
        THEN << Move(<<row, col>>, <<row + move_amount, col>>, g.chessboard, FALSE, FALSE) >>
        ELSE <<>>

\* The advances of lines 355-361.
PawnAdvances(g, row, col, piece_pinned, pin_direction) ==
    LET move_amount == IF g.is_white_turn THEN -1 ELSE 1
        start_row == IF g.is_white_turn THEN 6 ELSE 1
    IN  IF g.chessboard[row + move_amount][col] = "--"
           /\ (~piece_pinned \/ pin_direction = <<move_amount, 0>>)
        THEN << Move(<<row, col>>, <<row + move_amount, col>>, g.chessboard, FALSE, FALSE) >>
             \o
             (IF row = start_row /\ g.chessboard[row + 2 * move_amount][col] = "--"
              THEN << Move(<<row, col>>, <<row + 2 * move_amount, col>>,
                           g.chessboard, FALSE, FALSE) >>
              ELSE <<>>)
        ELSE <<>>

get_pawn_moves(g, pinned, row, col) ==
    LET pin == PinLookup(pinned, row, col, FALSE)
    IN  [moves |-> PawnAdvances(g, row, col, pin.piece_pinned, pin.pin_direction)
                   \o PawnCaptures(g, row, col, -1, pin.piece_pinned, pin.pin_direction)
                   \o PawnCaptures(g, row, col, 1, pin.piece_pinned, pin.pin_direction),
         pinned |-> pin.pinned]

(***************************************************************************)
(* The ray walk of get_rook_moves (lines 430-444) and get_bishop_moves     *)
(* (lines 484-498) from step i on.                                         *)
(***************************************************************************)
RECURSIVE SlideMoves(_, _, _, _, _, _, _)
SlideMoves(g, row, col, direction, i, piece_pinned, pin_direction) ==
    LET end_row == row + direction[1] * i
        end_col == col + direction[2] * i
    IN  IF i > 7 \/ ~OnBoard(end_row, end_col) THEN <<>>
        ELSE IF ~piece_pinned \/ pin_direction = direction
                \/ pin_direction = <<-direction[1], -direction[2]>>
        THEN LET end_piece == g.chessboard[end_row][end_col]
             IN  IF end_piece = "--"
                 THEN << Move(<<row, col>>, <<end_row, end_col>>, g.chessboard, FALSE, FALSE) >>
                      \o SlideMoves(g, row, col, direction, i + 1, piece_pinned, pin_direction)
                 ELSE IF Colour(end_piece) = EnemyColour(g)
                 THEN << Move(<<row, col>>, <<end_row, end_col>>, g.chessboard, FALSE, FALSE) >>
                 ELSE <<>>
        ELSE SlideMoves(g, row, col, direction, i + 1, piece_pinned, pin_direction)

\* directions of get_rook_moves, line 427
rook_directions == << <<-1, 0>>, <<0, -1>>, <<1, 0>>, <<0, 1>> >>

\* directions of get_bishop_moves, line 481
bishop_directions == << <<-1, -1>>, <<-1, 1>>, <<1, 1>>, <<1, -1>> >>

SlideAll(g, row, col, dirs, pin) ==
    SlideMoves(g, row, col, dirs[1], 1, pin.piece_pinned, pin.pin_direction)
    \o SlideMoves(g, row, col, dirs[2], 1, pin.piece_pinned, pin.pin_direction)
    \o SlideMoves(g, row, col, dirs[3], 1, pin.piece_pinned, pin.pin_direction)
    \o SlideMoves(g, row, col, dirs[4], 1, pin.piece_pinned, pin.pin_direction)

get_rook_moves(g, pinned, row, col) ==
    LET pin == PinLookup(pinned, row, col, Kind(g.chessboard[row][col]) = "Q")
    IN  [moves |-> SlideAll(g, row, col, rook_directions, pin), pinned |-> pin.pinned]

get_bishop_moves(g, pinned, row, col) ==
    LET pin == PinLookup(pinned, row, col, FALSE)
    IN  [moves |-> SlideAll(g, row, col, bishop_directions, pin), pinned |-> pin.pinned]

\* get_queen_moves appending the rook's moves a second time
ThenBishopAndRookAgain(rook_moves, bishop) ==
    [moves |-> rook_moves \o bishop.moves \o rook_moves, pinned |-> bishop.pinned]

\* A queen's entry stays in self.pinned_pieces through get_rook_moves
\* (line 423), so get_bishop_moves finds the list get_rook_moves was given.
ThenBishop(rook_moves, bishop) ==
    [moves |-> rook_moves \o bishop.moves, pinned |-> bishop.pinned]

get_queen_moves(g, pinned, row, col) ==
    ThenBishop(get_rook_moves(g, pinned, row, col).moves,
               get_bishop_moves(g, pinned, row, col))

(***************************************************************************)
(* ChessGame.get_knight_moves                                              *)
(***************************************************************************)
\* One round of the loop of lines 459-466, offset k (1..8).
KnightMove1(g, row, col, k, piece_pinned) ==
    LET end_row == row + knight_moves[k][1]
        end_col == col + knight_moves[k][2]
    IN  IF OnBoard(end_row, end_col) /\ ~piece_pinned
           /\ Colour(g.chessboard[end_row][end_col]) # AllyColour(g)
        THEN << Move(<<row, col>>, <<end_row, end_col>>, g.chessboard, FALSE, FALSE) >>
        ELSE <<>>

KnightMoves(g, row, col, piece_pinned) ==
    Cat8([k \in 1..8 |-> KnightMove1(g, row, col, k, piece_pinned)])

get_knight_moves(g, pinned, row, col) ==
    LET pin == PinLookup(pinned, row, col, FALSE)
    IN  [moves |-> KnightMoves(g, row, col, pin.piece_pinned), pinned |-> pin.pinned]

(***************************************************************************)
(* ChessGame.get_king_moves: each candidate square is tried by moving the  *)
(* cached king square there, scanning, and moving it back (lines 520-532). *)
(***************************************************************************)
row_moves == <<-1, -1, -1, 0, 0, 1, 1, 1>>
col_moves == <<-1, 0, 1, -1, 1, -1, 0, 1>>

\* The cached king square of the side to move set to pos (lines 521-524, 529-532).
WithKingAt(g, pos) ==
    IF AllyColour(g) = "w" THEN [g EXCEPT !.white_king_pos = pos]
    ELSE [g EXCEPT !.black_king_pos = pos]

\* One round of the loop of lines 514-532, offset k (1..8).
KingMove1(g, row, col, k) ==
    LET end_row == row + row_moves[k]
        end_col == col + col_moves[k]
    IN  IF OnBoard(end_row, end_col)
           /\ Colour(g.chessboard[end_row][end_col]) # AllyColour(g)
           /\ ~check_for_pins_and_checks(WithKingAt(g, <<end_row, end_col>>)).in_check
        THEN << Move(<<row, col>>, <<end_row, end_col>>, g.chessboard, FALSE, FALSE) >>
        ELSE <<>>

KingMoves(g, row, col) == Cat8([k \in 1..8 |-> KingMove1(g, row, col, k)])

get_king_moves(g, pinned, row, col) ==
    [moves |-> KingMoves(g, row, col), pinned |-> pinned]

\* get_king_moves without lines 529-532: the cached king square is left on
\* the last candidate square tried.
AfterKingMovesNotRestored(g, row, col) ==
    LET tried == {k \in 1..8 :
                     /\ OnBoard(row + row_moves[k], col + col_moves[k])
                     /\ Colour(g.chessboard[row + row_moves[k]][col + col_moves[k]])
                            # AllyColour(g)}
        last == CHOOSE k \in tried : \A j \in tried : j <= k
    IN  IF tried # {}
        THEN WithKingAt(g, <<row + row_moves[last], col + col_moves[last]>>)
        ELSE g

\* The game as get_king_moves leaves it: once a candidate square was tried,
\* the cached king square of the side to move is (row, col) (lines 529-532).
AfterKingMoves(g, row, col) ==
    IF \E k \in 1..8 :
           /\ OnBoard(row + row_moves[k], col + col_moves[k])
           /\ Colour(g.chessboard[row + row_moves[k]][col + col_moves[k]]) # AllyColour(g)
    THEN WithKingAt(g, <<row, col>>)
    ELSE g

(***************************************************************************)
(* ChessGame.get_all_possible_moves: self.move_handlers[piece] on every    *)
(* square of the side to move, rows then columns.  The result has the      *)
(* moves, what is left of self.pinned_pieces, and the game (its cached     *)
(* king squares) as the handlers leave it.                                 *)
(***************************************************************************)
move_handlers(g, pinned, row, col) ==
    LET piece == Kind(g.chessboard[row][col])
    IN  CASE piece = "P" -> get_pawn_moves(g, pinned, row, col)
          [] piece = "R" -> get_rook_moves(g, pinned, row, col)
          [] piece = "N" -> get_knight_moves(g, pinned, row, col)
          [] piece = "B" -> get_bishop_moves(g, pinned, row, col)
          [] piece = "Q" -> get_queen_moves(g, pinned, row, col)
          [] piece = "K" -> get_king_moves(g, pinned, row, col)

\* The squares (0..63, rows then columns) holding the side to move's king:
\* one at most, since no operation adds a king to the board.
AllyKingSquares(g) ==
    {sq \in 0..63 : g.chessboard[sq \div 8][sq % 8] = (IF g.is_white_turn THEN "wK" ELSE "bK")}

\* The moves the handler of square sq appends.  The handlers of the squares
\* after the king's square king_sq run on the game as get_king_moves left it.
SquareMoves(g, after_king, king_sq, pinned, sq) ==
    IF Colour(g.chessboard[sq \div 8][sq % 8]) = AllyColour(g)
    THEN move_handlers(IF sq > king_sq THEN after_king ELSE g,
                       pinned, sq \div 8, sq % 8).moves
    ELSE <<>>

RowOfMoves(g, a, k, pinned, row) ==
    Cat8([col \in 1..8 |-> SquareMoves(g, a, k, pinned, 8 * row + col - 1)])

\* self.pinned_pieces after the loop: every handler but the king's has
\* removed the last entry on its square (a lookup finds an entry by its
\* square alone, so what other squares' handlers removed does not change it).
PinnedLeft(g, pinned) ==
    LET Consumed(i) ==
            /\ Colour(g.chessboard[pinned[i][1]][pinned[i][2]]) = AllyColour(g)
            /\ Kind(g.chessboard[pinned[i][1]][pinned[i][2]]) # "K"
            /\ FindPin(pinned, pinned[i][1], pinned[i][2], Len(pinned)) = i
        kept == {i \in 1..Len(pinned) : ~Consumed(i)}
        Nth(n) == CHOOSE i \in kept : Cardinality({j \in kept : j < i}) = n - 1
    IN  [n \in 1..Cardinality(kept) |-> pinned[Nth(n)]]

get_all_possible_moves(g, pinned) ==
    LET kings == AllyKingSquares(g)
        k == IF kings = {} THEN 64 ELSE CHOOSE sq \in kings : TRUE
        a == IF kings = {} THEN g ELSE AfterKingMoves(g, k \div 8, k % 8)
    IN  [moves |-> Cat8([row \in 1..8 |-> RowOfMoves(g, a, k, pinned, row - 1)]),
         pinned |-> PinnedLeft(g, pinned),
         g |-> a]

(***************************************************************************)
(* ChessGame.is_square_attacked: the side to move is flipped, the          *)
(* opponent's moves generated, and the side flipped back.                  *)
(***************************************************************************)
\* lines 248-252, given what get_all_possible_moves did at line 247
AmongEndSquares(opponent, row, col) ==
    [attacked |-> \E i \in 1..Len(opponent.moves) :
                      opponent.moves[i].end_row = row /\ opponent.moves[i].end_col = col,
     g |-> [opponent.g EXCEPT !.is_white_turn = ~@]]

is_square_attacked(g, pinned, row, col) ==
    AmongEndSquares(get_all_possible_moves([g EXCEPT !.is_white_turn = ~@], pinned),
                    row, col)

(***************************************************************************)
(* ChessGame.get_castle_moves, get_kingside_castle_moves and               *)
(* get_queenside_castle_moves.  The result has the moves to append and the *)
(* game as the attack scans leave it.                                      *)
(***************************************************************************)
get_kingside_castle_moves(g, pinned, row, col) ==
    IF g.chessboard[row][col + 1] = "--" /\ g.chessboard[row][col + 2] = "--"
       /\ ~is_square_attacked(g, pinned, row, col + 1).attacked
       /\ ~is_square_attacked(g, pinned, row, col + 2).attacked
    THEN << Move(<<row, col>>, <<row, col + 2>>, g.chessboard, FALSE, TRUE) >>
    ELSE <<>>

get_queenside_castle_moves(g, pinned, row, col) ==
    IF g.chessboard[row][col - 1] = "--" /\ g.chessboard[row][col - 2] = "--"
       /\ g.chessboard[row][col - 3] = "--"
       /\ ~is_square_attacked(g, pinned, row, col - 1).attacked
       /\ ~is_square_attacked(g, pinned, row, col - 2).attacked
    THEN << Move(<<row, col>>, <<row, col - 2>>, g.chessboard, FALSE, TRUE) >>
    ELSE <<>>

\* lines 538-545, given what is_square_attacked(row, col) did at line 538
CastleMovesWhen(here, pinned, row, col) ==
    IF here.attacked THEN [moves |-> <<>>, g |-> here.g]
    ELSE [moves |->
            (IF (here.g.is_white_turn /\ here.g.current_castle_rights.wks)
                \/ (~here.g.is_white_turn /\ here.g.current_castle_rights.bks)
             THEN get_kingside_castle_moves(here.g, pinned, row, col) ELSE <<>>)
            \o
            (IF (here.g.is_white_turn /\ here.g.current_castle_rights.wqs)
                \/ (~here.g.is_white_turn /\ here.g.current_castle_rights.bqs)
             THEN get_queenside_castle_moves(here.g, pinned, row, col) ELSE <<>>),
          g |-> here.g]

get_castle_moves(g, pinned, row, col) ==
    CastleMovesWhen(is_square_attacked(g, pinned, row, col), pinned, row, col)

(***************************************************************************)
(* ChessGame.get_valid_moves                                               *)
(***************************************************************************)
\* valid_squares of lines 192-201 from step i on
RECURSIVE ValidSquares(_, _, _, _)
ValidSquares(king, check, piece_checking, i) ==
    IF Kind(piece_checking) = "N" THEN << <<check[1], check[2]>> >>
    ELSE IF i > 7 THEN <<>>
    ELSE LET valid_square == <<king[1] + check[3] * i, king[2] + check[4] * i>>
         IN  IF valid_square[1] = check[1] /\ valid_square[2] = check[2]
             THEN <<valid_square>>
             ELSE <<valid_square>> \o ValidSquares(king, check, piece_checking, i + 1)

\* moves.remove(m): the list without its first entry equal to m (Move.__eq__)
RECURSIVE RemoveFirst(_, _)
RemoveFirst(moves, m) ==
    IF moves = <<>> THEN <<>>
    ELSE IF MoveEq(Head(moves), m) THEN Tail(moves)
    ELSE <<Head(moves)>> \o RemoveFirst(Tail(moves), m)

InSeq(x, s) == \E k \in 1..Len(s) : s[k] = x

\* The loop of lines 204-207, from index i (1..Len) down.
RECURSIVE RemoveLoop(_, _, _)
RemoveLoop(moves, valid_squares, i) ==
    IF i = 0 THEN moves
    ELSE IF Kind(moves[i].piece_moved) # "K"
            /\ ~InSeq(<<moves[i].end_row, moves[i].end_col>>, valid_squares)
    THEN RemoveLoop(RemoveFirst(moves, moves[i]), valid_squares, i - 1)
    ELSE RemoveLoop(moves, valid_squares, i - 1)

\* RemoveNonBlocking without the removal of line 207
KeepNonBlocking(moves, valid_squares) == moves

\* Lines 204-207.  When no two entries of the list are equal (Move.__eq__),
\* moves.remove(moves[i]) removes entry i itself, and the loop leaves the
\* entries it does not remove, in their order.
RemoveNonBlocking(moves, valid_squares) ==
    LET Stays(m) == Kind(m.piece_moved) = "K"
                    \/ InSeq(<<m.end_row, m.end_col>>, valid_squares)
    IN  IF Cardinality({moves[i].moveID : i \in 1..Len(moves)}) = Len(moves)
        THEN SelectSeq(moves, Stays)
        ELSE RemoveLoop(moves, valid_squares, Len(moves))

\* Lines 186-215: the candidate list and the game as its generation leaves
\* it, given the in_check, pinned_pieces and attackers of line 179.
\* lines 189-207, given what get_all_possible_moves did at line 188
Blocking(all, king, check, piece_checking) ==
    [moves |-> RemoveNonBlocking(all.moves, ValidSquares(king, check, piece_checking, 1)),
     g |-> all.g]

\* the list of line 211 with what get_castle_moves appended to it
WithCastleMoves(moves, castle) ==
    [moves |-> moves \o castle.moves, g |-> castle.g]

\* lines 212-215, given what get_all_possible_moves did at line 211
ThenCastle(all) ==
    WithCastleMoves(all.moves,
                    get_castle_moves(all.g, all.pinned, KingPos(all.g)[1], KingPos(all.g)[2]))

ValidMoveList(g1, pinned_pieces, attackers) ==
    IF g1.in_check
    THEN IF Len(attackers) = 1
         THEN Blocking(get_all_possible_moves(g1, pinned_pieces), KingPos(g1), attackers[1],
                       g1.chessboard[attackers[1][1]][attackers[1][2]])
         ELSE [moves |-> get_king_moves(g1, pinned_pieces,
                                        KingPos(g1)[1], KingPos(g1)[2]).moves,
               g |-> AfterKingMoves(g1, KingPos(g1)[1], KingPos(g1)[2])]
    ELSE ThenCastle(get_all_possible_moves(g1, pinned_pieces))

\* self.in_check() at line 218: the attribute in_check of the instance is the
\* bool assigned at lines 42 and 179, which hides the method of line 229, so
\* the call raises TypeError.
InCheckCallRaises(g) == g.in_check \in BOOLEAN

\* Lines 217-224 when the call at line 218 returns: the method of line 229.
FlagsWhen(here) ==
    IF here.attacked THEN [here.g EXCEPT !.is_checkmate = TRUE]
    ELSE [here.g EXCEPT !.is_stalemate = TRUE]

TerminalFlags(g) ==
    FlagsWhen(is_square_attacked(g, <<>>, KingPos(g)[1], KingPos(g)[2]))

\* The result: the list returned, the game afterwards, and whether the call
\* raised instead of returning.  When it raises, line 226 is not reached.
\* lines 217-227, given the list of lines 186-215
Outcome(list) ==
    IF Len(list.moves) = 0
    THEN IF InCheckCallRaises(list.g)
         THEN [moves |-> <<>>, g |-> list.g, raised |-> TRUE]
         ELSE [moves |-> list.moves, raised |-> FALSE,
               g |-> [TerminalFlags(list.g) EXCEPT !.rights_ref = 0]]
    ELSE [moves |-> list.moves, raised |-> FALSE,
          g |-> [list.g EXCEPT !.is_checkmate = FALSE, !.is_stalemate = FALSE,
                               !.rights_ref = 0]]

\* lines 181-227, given what check_for_pins_and_checks returned at line 179
AfterScan(g, scan) ==
    Outcome(ValidMoveList([g EXCEPT !.in_check = scan.in_check], scan.pins, scan.checks))

get_valid_moves(g) == AfterScan(g, check_for_pins_and_checks(g))

(***************************************************************************)
(* ChessAI.py: the evaluation.  Scores are Python floats (IEEE-754         *)
(* doubles), and score_board adds them up square by square, each addition  *)
(* rounded to the nearest double (to even on a tie).  Every score that     *)
(* occurs is a whole multiple of 2^-52, so a double is modelled exactly as *)
(* its sign and its magnitude in three parts: magnitude =                  *)
(* whole + (hi * 2^26 + lo) / 2^52, with 0 <= hi, lo < 2^26.               *)
(***************************************************************************)
LimbBase == 2^26

Float(sign, whole, hi, lo) == [sign |-> sign, whole |-> whole, hi |-> hi, lo |-> lo]

\* float(n) of an int n
FromInt(n) == IF n < 0 THEN Float(-1, -n, 0, 0) ELSE Float(1, n, 0, 0)

IsZero(x) == x.whole = 0 /\ x.hi = 0 /\ x.lo = 0

\* |x| < |y|
MagLess(x, y) ==
    \/ x.whole < y.whole
    \/ x.whole = y.whole /\ x.hi < y.hi
    \/ x.whole = y.whole /\ x.hi = y.hi /\ x.lo < y.lo

\* The low bits of lo a double of this magnitude cannot hold: a magnitude in
\* [2^k, 2^(k+1)) has 53 significant bits, the last of them worth 2^(k-52).
LostBits(whole) ==
    IF whole < 2 THEN 0 ELSE CHOOSE k \in 1..10 : 2^k <= whole /\ whole < 2^(k + 1)

\* Round an exact magnitude to the nearest double, ties to even.
Rounded(sign, whole, hi, lo) ==
    LET q == 2^LostBits(whole)
        r == lo % q
        base == lo - r
        up == 2 * r > q \/ (2 * r = q /\ (base \div q) % 2 = 1)
        lo2 == IF up THEN base + q ELSE base
        hi2 == hi + lo2 \div LimbBase
    IN  Float(sign, whole + hi2 \div LimbBase, hi2 % LimbBase, lo2 % LimbBase)

\* |x| + |y|, exact, then rounded
MagAdd(sign, x, y) ==
    LET lo == x.lo + y.lo
        hi == x.hi + y.hi + lo \div LimbBase
    IN  Rounded(sign, x.whole + y.whole + hi \div LimbBase, hi % LimbBase, lo % LimbBase)

\* |x| - |y| for |x| > |y|, exact, then rounded
MagSub(sign, x, y) ==
    LET lo == x.lo - y.lo
        borrow_lo == IF lo < 0 THEN 1 ELSE 0
        hi == x.hi - y.hi - borrow_lo
        borrow_hi == IF hi < 0 THEN 1 ELSE 0
    IN  Rounded(sign, x.whole - y.whole - borrow_hi,
                hi + borrow_hi * LimbBase, lo + borrow_lo * LimbBase)

\* x + y
FAdd(x, y) ==
    IF x.sign = y.sign THEN MagAdd(x.sign, x, y)
    ELSE IF MagLess(y, x) THEN MagSub(x.sign, x, y)
    ELSE IF MagLess(x, y) THEN MagSub(y.sign, y, x)
    ELSE FromInt(0)

\* -x
FNeg(x) == IF IsZero(x) THEN x ELSE [x EXCEPT !.sign = -@]

\* x - y
FSub(x, y) == FAdd(x, FNeg(y))

\* x < y
FLess(x, y) ==
    IF x.sign = y.sign
    THEN (IF x.sign = 1 THEN MagLess(x, y) ELSE MagLess(y, x))
    ELSE x.sign = -1 /\ ~(IsZero(x) /\ IsZero(y))

\* turn_factor * x for turn_factor 1 or -1
FTimes(turn_factor, x) == IF turn_factor = 1 THEN x ELSE FNeg(x)

\* The double of piece_score + position score, the position score given in
\* hundredths as the tables below give it: the double nearest to
\* whole + hundredths / 100, which for every entry of the tables is what the
\* float addition of the int and the float literal gives.
Double(whole, hundredths) ==
    LET numerator == hundredths * 2^24
        hi == numerator \div 25
        rest == (numerator % 25) * LimbBase
        lo == rest \div 25
        left == rest % 25
        q == 2^LostBits(whole)
        r == lo % q
        base == lo - r
        up == 2 * (25 * r + left) > 25 * q
        lo2 == IF up THEN base + q ELSE base
        hi2 == hi + lo2 \div LimbBase
    IN  Float(1, whole + hi2 \div LimbBase, hi2 % LimbBase, lo2 % LimbBase)

piece_score == [K |-> 0, Q |-> 9, R |-> 5, B |-> 3, N |-> 3, P |-> 1]

\* The positional tables, in hundredths.
knight_scores ==
    << << 0, 10, 20, 20, 20, 20, 10,  0>>,
       <<10, 30, 50, 50, 50, 50, 30, 10>>,
       <<20, 50, 60, 65, 65, 60, 50, 20>>,
       <<20, 55, 65, 70, 70, 65, 55, 20>>,
       <<20, 50, 65, 70, 70, 65, 50, 20>>,
       <<20, 55, 60, 65, 65, 60, 55, 20>>,
       <<10, 30, 50, 55, 55, 50, 30, 10>>,
       << 0, 10, 20, 20, 20, 20, 10,  0>> >>

bishop_scores ==
    << << 0, 20, 20, 20, 20, 20, 20,  0>>,
       <<20, 40, 40, 40, 40, 40, 40, 20>>,
       <<20, 40, 50, 60, 60, 50, 40, 20>>,
       <<20, 50, 50, 60, 60, 50, 50, 20>>,
       <<20, 40, 60, 60, 60, 60, 40, 20>>,
       <<20, 60, 60, 60, 60, 60, 60, 20>>,
       <<20, 50, 40, 40, 40, 40, 50, 20>>,
       << 0, 20, 20, 20, 20, 20, 20,  0>> >>

rook_scores ==
    << <<25, 25, 25, 25, 25, 25, 25, 25>>,
       <<50, 75, 75, 75, 75, 75, 75, 50>>,
       << 0, 25, 25, 25, 25, 25, 25,  0>>,
       << 0, 25, 25, 25, 25, 25, 25,  0>>,
       << 0, 25, 25, 25, 25, 25, 25,  0>>,
       << 0, 25, 25, 25, 25, 25, 25,  0>>,
       << 0, 25, 25, 25, 25, 25, 25,  0>>,
       <<25, 25, 25, 50, 50, 25, 25, 25>> >>

queen_scores ==
    << << 0, 20, 20, 30, 30, 20, 20,  0>>,
       <<20, 40, 40, 40, 40, 40, 40, 20>>,
       <<20, 40, 50, 50, 50, 50, 40, 20>>,
       <<30, 40, 50, 50, 50, 50, 40, 30>>,
       <<40, 40, 50, 50, 50, 50, 40, 30>>,
       <<20, 50, 50, 50, 50, 50, 40, 20>>,
       <<20, 40, 50, 40, 40, 40, 40, 20>>,
       << 0, 20, 20, 30, 30, 20, 20,  0>> >>

pawn_scores ==
    << <<80, 80, 80, 80, 80, 80, 80, 80>>,
       <<70, 70, 70, 70, 70, 70, 70, 70>>,
       <<30, 30, 40, 50, 50, 40, 30, 30>>,
       <<25, 25, 30, 45, 45, 30, 25, 25>>,
       <<20, 20, 20, 40, 40, 20, 20, 20>>,
       <<25, 15, 10, 20, 20, 10, 15, 25>>,
       <<25, 30, 30,  0,  0, 30, 30, 25>>,
       <<20, 20, 20, 20, 20, 20, 20, 20>> >>

\* table[::-1]
Reversed(table) == [row \in 1..8 |-> table[9 - row]]

\* piece_position_scores[piece][row][col], in hundredths
piece_position_scores(piece, row, col) ==
    LET table == CASE piece = "wN" -> knight_scores
                   [] piece = "bN" -> Reversed(knight_scores)
                   [] piece = "wB" -> bishop_scores
                   [] piece = "bB" -> Reversed(bishop_scores)
                   [] piece = "wQ" -> queen_scores
                   [] piece = "bQ" -> Reversed(queen_scores)
                   [] piece = "wR" -> rook_scores
                   [] piece = "bR" -> Reversed(rook_scores)
                   [] piece = "wP" -> pawn_scores
                   [] piece = "bP" -> Reversed(pawn_scores)
    IN  table[row + 1][col + 1]

WIN_SCORE == 1000
DRAW_SCORE == 0
SEARCH_DEPTH == 3

\* The squares in the order the two loops of score_board visit them.
Squares == [i \in 1..64 |-> <<(i - 1) \div 8, (i - 1) % 8>>]

\* lines 173-180: the score after the square (row, col)
ScoreWith(score, piece, row, col) ==
    IF Kind(piece) = "K" THEN score
    ELSE IF Colour(piece) = "w"
    THEN FAdd(score, Double(piece_score[Kind(piece)], piece_position_scores(piece, row, col)))
    ELSE FSub(score, Double(piece_score[Kind(piece)], piece_position_scores(piece, row, col)))

\* lines 169-180: the loops, from the i-th occupied square on.  (The test of
\* the sign has the running score computed before the next round starts.)
RECURSIVE SumScores(_, _, _, _)
SumScores(board, occupied, i, score) ==
    IF i > Len(occupied) \/ score.sign = 0 THEN score
    ELSE SumScores(board, occupied, i + 1,
                   ScoreWith(score, board[occupied[i][1]][occupied[i][2]],
                             occupied[i][1], occupied[i][2]))

score_board(game_state) ==
    IF game_state.is_checkmate
    THEN (IF game_state.is_white_turn THEN FromInt(-WIN_SCORE) ELSE FromInt(WIN_SCORE))
    ELSE IF game_state.is_stalemate THEN FromInt(DRAW_SCORE)
    ELSE SumScores(game_state.chessboard,
                   SelectSeq(Squares, LAMBDA sq : game_state.chessboard[sq[1]][sq[2]] # "--"),
                   1, FromInt(0))

(***************************************************************************)
(* ChessAI.evaluateMoves, one round of its loop at a time.  The call stack *)
(* of the recursion is the list frames, the innermost call last.  A frame  *)
(* holds the arguments and locals of one call: valid_moves, the index i of *)
(* the next candidate of the loop, depth, alpha, beta, turn_factor,        *)
(* score_max, whether the loop has been left by break, and at_call, the    *)
(* game as it stood when the call started (kept for the claims only; the   *)
(* code does not read it).  A search is the game object the calls work on, *)
(* the frames, the global best_move (<<>> for None) and how the outermost  *)
(* call ended: "returned" with score, or "raised".                         *)
(***************************************************************************)
None == <<>>

Frame(game_state, valid_moves, depth, alpha, beta, turn_factor) ==
    [valid_moves |-> valid_moves, i |-> 1, depth |-> depth,
     alpha |-> alpha, beta |-> beta, turn_factor |-> turn_factor,
     score_max |-> FromInt(-WIN_SCORE), broke |-> FALSE, at_call |-> game_state]

\* No call of evaluateMoves has been made.
NoSearch ==
    [status |-> "none", game_state |-> NewGame, frames |-> <<>>,
     best_move |-> None, score |-> FromInt(0)]

\* evaluateMoves(game_state, valid_moves, depth, alpha, beta, turn_factor)
\* has just been called with depth > 0 (line 117 reached).
Called(game_state, valid_moves, depth, alpha, beta, turn_factor) ==
    [status |-> "running", game_state |-> game_state,
     frames |-> <<Frame(game_state, valid_moves, depth, alpha, beta, turn_factor)>>,
     best_move |-> None, score |-> FromInt(0)]

\* lines 123-134 in the innermost call, for the candidate whose score has
\* come back: the maximum and best_move, undo_move, alpha and the cutoff
\* (taken only when cutoff is set: the code has it set).
Scored(running, score, cutoff) ==
    LET n == Len(running.frames)
        top == running.frames[n]
        better == FLess(top.score_max, score)
        score_max == IF better THEN score ELSE top.score_max
        alpha == IF FLess(top.alpha, score_max) THEN score_max ELSE top.alpha
    IN  [running EXCEPT
            !.best_move = IF better /\ top.depth = SEARCH_DEPTH
                          THEN top.valid_moves[top.i] ELSE @,
            !.game_state = undo_move(@),
            !.frames[n] = [top EXCEPT !.score_max = score_max,
                                      !.alpha = alpha,
                                      !.broke = cutoff /\ ~FLess(alpha, top.beta),
                                      !.i = @ + 1]]

\* lines 121-122 after execute_move and get_valid_moves (whose result is
\* moved): the exception goes up through every call; at depth 1 the call of
\* line 122 returns at lines 114-115; otherwise it starts its own loop.
Entered(running, moved, cutoff) ==
    LET top == Last(running.frames)
    IN  IF moved.raised
        THEN [running EXCEPT !.status = "raised", !.game_state = moved.g]
        ELSE IF top.depth - 1 = 0
        THEN Scored([running EXCEPT !.game_state = moved.g],
                    FNeg(FTimes(-top.turn_factor, score_board(moved.g))), cutoff)
        ELSE [running EXCEPT
                 !.game_state = moved.g,
                 !.frames = Append(@, Frame(moved.g, moved.moves, top.depth - 1,
                                            FNeg(top.beta), FNeg(top.alpha),
                                            -top.turn_factor))]

\* line 135 in the innermost call: return score_max, to line 122 of the
\* calling round or to the caller of the search.
Returned(running, cutoff) ==
    LET n == Len(running.frames)
        top == running.frames[n]
    IN  IF n = 1
        THEN [running EXCEPT !.status = "returned", !.score = top.score_max,
                            !.frames = <<>>]
        ELSE Scored([running EXCEPT !.frames = Pop(@)], FNeg(top.score_max), cutoff)

\* One round of the search: the next candidate of the innermost loop
\* (lines 119-122), or the return from it when it is over (line 135).
evaluateMoves(running, cutoff) ==
    LET top == Last(running.frames)
    IN  IF top.broke \/ top.i > Len(top.valid_moves)
        THEN Returned(running, cutoff)
        ELSE Entered(running,
                     get_valid_moves(execute_move(running.game_state, top.valid_moves[top.i])),
                     cutoff)

\* No process has been started.  since is the number of key presses main had
\* handled when it started the process, cancelled the number of processes it
\* has terminated while they ran (both kept for the claims only).
NoProcess == [status |-> "none", since |-> 0, cancelled |-> 0]

\* random.shuffle(valid_moves): two of the orders it may leave the list in,
\* the one it had and the reverse.
Shuffled(valid_moves) ==
    {valid_moves,
     [i \in 1..Len(valid_moves) |-> valid_moves[Len(valid_moves) + 1 - i]]}

(***************************************************************************)
(* The caller.  It constructs a game and plays one of the opening lines    *)
(* below the way the driver does: get_valid_moves, then execute_move of    *)
(* the move of the list that has the start and end squares clicked         *)
(* (ChessMain.py lines 72-75), then get_valid_moves again (line 139).      *)
(* After the line it plays up to MaxPly further moves of its choice, each  *)
(* followed by get_valid_moves as both callers of the repository do        *)
(* (ChessMain.py line 139, ChessAI.py line 121), and calls undo_move at    *)
(* will, with or without a get_valid_moves before the next execute_move    *)
(* (ChessMain.py line 86, ChessAI.py line 128).  An exception ends it.     *)
(***************************************************************************)
\* The opening lines, each move by its moveID (start row, start column,
\* end row, end column as four digits; a leading 0 is not written).
\* no move: the initial position
Fresh ==
    <<>>

\* f2f3 e7e5 g2g4 d8h4
FoolsMate ==
    <<6555, 1434, 6646, 347>>

\* h2h4 g7g5 h4g5 h7h5 g1f3 h5h4 e2e3 h4h3 f1e2 h3h2
PawnOnH2 ==
    <<6747, 1636, 4736, 1737, 7655, 3747, 6454, 4757, 7564, 5767>>

\* e2e4 e7e6 e1e2 d8h4 e2d3 h4h5 d3d4 h5d1
PinnedPawn ==
    <<6444, 1424, 7464, 347, 6453, 4737, 5343, 3773>>

\* h2h4 c7c5 h1h3 c5c4 h3g3 d7d6 g3g4 e8d7 f2f3 d7c6 e1f2 c6b5 f2e1 b5b4
\* d2d4
EnPassantRank ==
    <<6747, 1232, 7757, 3242, 5756, 1323, 5646, 413, 6555, 1322, 7465, 2231,
      6574, 3141, 6343>>

\* e2e3 a7a5 d1h5 a8a6 h5a5 h7h5 h2h4 a6h6 a5c7 f7f6 c7d7 e8f7 d7b7 d8d3
\* b7b8 d3h7 b8c8 f7g6 c8e6
Stalemate ==
    <<6454, 1030, 7337, 20, 3730, 1737, 6747, 2027, 3012, 1525, 1213, 415,
      1311, 353, 1101, 5317, 102, 1526, 224>>

\* e2e4 d7d5 f1b5
BishopCheck ==
    <<6444, 1333, 7531>>

\* b1c3 e7e5 c3d5 d7d6 d5c7
KnightCheck ==
    <<7152, 1434, 5233, 1323, 3312>>

\* e2e4 d7d5 e4d5 e7e5 d5e6 c8e6 b1c3 e6f5 c3e4 a7a6 d1e2 a6a5 e4d6
DoubleCheck ==
    <<6444, 1333, 4433, 1434, 3324, 224, 7152, 2435, 5244, 1020, 7364, 2030,
      4423>>

\* the line PawnOnH2, then e1g1 (white castles)
PawnOnH2Castled == Append(PawnOnH2, 7476)

\* h2h4 b7b5 h1h3 b5b4 h3a3
RookOnA3 ==
    <<6747, 1131, 7757, 3141, 5750>>

\* f2f3 e7e5
BeforeFoolsMate ==
    <<6555, 1434>>

\* e2e4 f7f6 d1h5 g7g6 h5g6
TwoChecks ==
    <<6444, 1525, 7337, 1626, 3726>>

\* e2e3 c7c5 f1d3 f7f6 d1h5 g7g6 h5g6
MateThreat ==
    <<6454, 1232, 7553, 1525, 7337, 1626, 3726>>

\* b1a3 a7a6 d2d3 a6a5 c1e3 a5a4 d1d2 h7h6
QueensideCastle ==
    <<7150, 1020, 6353, 2030, 7254, 3040, 7363, 1727>>

Lines ==
    <<Fresh,
      FoolsMate,
      PawnOnH2,
      PawnOnH2Castled,
      PinnedPawn,
      EnPassantRank,
      Stalemate,
      BishopCheck,
      KnightCheck,
      DoubleCheck,
      RookOnA3,
      BeforeFoolsMate,
      TwoChecks,
      MateThreat,
      QueensideCastle>>

self ==
    [chessboard |-> chessboard, is_white_turn |-> is_white_turn,
     move_history |-> move_history, white_king_pos |-> white_king_pos,
     black_king_pos |-> black_king_pos, is_checkmate |-> is_checkmate,
     is_stalemate |-> is_stalemate, in_check |-> in_check,
     enpassant_possible |-> enpassant_possible, enpassant_log |-> enpassant_log,
     current_castle_rights |-> current_castle_rights,
     castle_rights_log |-> castle_rights_log, rights_ref |-> rights_ref]

Becomes(g) ==
    /\ chessboard' = g.chessboard
    /\ is_white_turn' = g.is_white_turn
    /\ move_history' = g.move_history
    /\ white_king_pos' = g.white_king_pos
    /\ black_king_pos' = g.black_king_pos
    /\ is_checkmate' = g.is_checkmate
    /\ is_stalemate' = g.is_stalemate
    /\ in_check' = g.in_check
    /\ enpassant_possible' = g.enpassant_possible
    /\ enpassant_log' = g.enpassant_log
    /\ current_castle_rights' = g.current_castle_rights
    /\ castle_rights_log' = g.castle_rights_log
    /\ rights_ref' = g.rights_ref

\* The game and main right after their construction.
Constructed ==
    /\ chessboard = NewGame.chessboard
    /\ is_white_turn = NewGame.is_white_turn
    /\ move_history = NewGame.move_history
    /\ white_king_pos = NewGame.white_king_pos
    /\ black_king_pos = NewGame.black_king_pos
    /\ is_checkmate = NewGame.is_checkmate
    /\ is_stalemate = NewGame.is_stalemate
    /\ in_check = NewGame.in_check
    /\ enpassant_possible = NewGame.enpassant_possible
    /\ enpassant_log = NewGame.enpassant_log
    /\ current_castle_rights = NewGame.current_castle_rights
    /\ castle_rights_log = NewGame.castle_rights_log
    /\ rights_ref = NewGame.rights_ref
    /\ last_call = "init"
    /\ returned = <<>>
    /\ raised = FALSE
    /\ search = NoSearch
    /\ reference = NoSearch
    /\ pc = "setup"
    /\ game_over = FALSE
    /\ ai_thinking = FALSE
    /\ move_undone = FALSE
    /\ move_made = FALSE
    /\ human_turn = TRUE
    /\ board_state_counts = <<>>
    /\ move_finder_process = NoProcess
    /\ return_queue = <<>>
    /\ keys = 0

\* The caller plays any of the lines but those kept for the search.
Init ==
    /\ Constructed
    /\ script \in {k \in 1..Len(Lines) :
                       Lines[k] \notin {BeforeFoolsMate, TwoChecks, MateThreat}}

\* The moves of the list the caller may execute now: the next move of its
\* line while the line lasts, then any, MaxPly times.
Playable(moves) ==
    LET played == Len(move_history)
        line == Lines[script]
    IN  IF played < Len(line)
        THEN {i \in 1..Len(moves) : moves[i].moveID = line[played + 1]}
        ELSE IF played < Len(line) + MaxPly THEN 1..Len(moves) ELSE {}

\* The list the caller holds for the position: the one just returned, or,
\* after undo_move, the one get_valid_moves gives for the position.
HeldMoves ==
    IF last_call = "get_valid_moves" THEN returned ELSE get_valid_moves(self).moves

ExecuteMove ==
    /\ ~raised
    /\ last_call \in {"get_valid_moves", "undo_move"}
    /\ \E moves \in {HeldMoves} :
           \E i \in Playable(moves) :
               \E g \in {execute_move(self, moves[i])} : Becomes(g)
    /\ last_call' = "execute_move"
    /\ returned' = <<>>
    /\ UNCHANGED <<script, raised, ai_vars, main_vars>>

\* undo_move is called after the line only, and on a history that is empty
\* (where it does nothing).
UndoMove ==
    /\ ~raised
    /\ last_call \in {"get_valid_moves", "undo_move"}
    /\ Len(move_history) > Len(Lines[script]) \/ Len(move_history) = 0
    /\ \E g \in {undo_move(self)} : Becomes(g)
    /\ last_call' = "undo_move"
    /\ returned' = <<>>
    /\ UNCHANGED <<script, raised, ai_vars, main_vars>>

GetValidMoves ==
    /\ ~raised
    /\ last_call # "get_valid_moves"
    /\ \E r \in {get_valid_moves(self)} :
           /\ Becomes(r.g)
           /\ returned' = r.moves
           /\ raised' = r.raised
    /\ last_call' = "get_valid_moves"
    /\ UNCHANGED <<script, ai_vars, main_vars>>

Next == ExecuteMove \/ UndoMove \/ GetValidMoves

Spec == Init /\ [][Next]_vars

(***************************************************************************)
(* evaluateMoves called as calculateOptimalMove calls it (ChessAI.py line  *)
(* 97: the full window, the side to move as turn_factor) on the            *)
(* position at the end of an opening line, to a depth up to SEARCH_DEPTH,  *)
(* and, once it has ended, the same call with the cutoff removed.  For a    *)
(* line that ends in a position without legal moves the call is made with  *)
(* the empty list (get_valid_moves has raised before returning one).       *)
(***************************************************************************)
\* The calls made: the opening line and the depth.
SearchCalls ==
    {<<BeforeFoolsMate, 1>>, <<BeforeFoolsMate, 2>>}
        \cup ({TwoChecks, MateThreat, DoubleCheck, Stalemate, FoolsMate}
                 \X (1..SEARCH_DEPTH))

SearchInit ==
    /\ Constructed
    /\ script \in {k \in 1..Len(Lines) : \E call \in SearchCalls : Lines[k] = call[1]}

OpeningMove ==
    /\ pc = "setup"
    /\ Len(move_history) < Len(Lines[script])
    /\ ExecuteMove

OpeningList ==
    /\ pc = "setup"
    /\ search.status = "none"
    /\ GetValidMoves

CallEvaluateMoves ==
    /\ pc = "setup"
    /\ search.status = "none"
    /\ last_call = "get_valid_moves"
    /\ Len(move_history) = Len(Lines[script])
    /\ \E depth \in {d \in 1..SEARCH_DEPTH : <<Lines[script], d>> \in SearchCalls} :
           \E called \in {Called(self, returned, depth, FromInt(-WIN_SCORE),
                                 FromInt(WIN_SCORE), IF is_white_turn THEN 1 ELSE -1)} :
               /\ search' = called
               /\ reference' = called
    /\ UNCHANGED <<chessboard, is_white_turn, move_history, white_king_pos,
                   black_king_pos, is_checkmate, is_stalemate, in_check,
                   enpassant_possible, enpassant_log, current_castle_rights,
                   castle_rights_log, rights_ref, script, last_call, returned,
                   raised, main_vars>>

SearchRound ==
    /\ pc = "setup"
    /\ search.status = "running"
    /\ \E next \in {evaluateMoves(search, TRUE)} : search' = next
    /\ UNCHANGED <<chessboard, is_white_turn, move_history, white_king_pos,
                   black_king_pos, is_checkmate, is_stalemate, in_check,
                   enpassant_possible, enpassant_log, current_castle_rights,
                   castle_rights_log, rights_ref, script, last_call, returned,
                   raised, reference, main_vars>>

ReferenceRound ==
    /\ pc = "setup"
    /\ search.status \in {"returned", "raised"}
    /\ reference.status = "running"
    /\ \E next \in {evaluateMoves(reference, FALSE)} : reference' = next
    /\ UNCHANGED <<chessboard, is_white_turn, move_history, white_king_pos,
                   black_king_pos, is_checkmate, is_stalemate, in_check,
                   enpassant_possible, enpassant_log, current_castle_rights,
                   castle_rights_log, rights_ref, script, last_call, returned,
                   raised, search, main_vars>>

SearchNext ==
    OpeningMove \/ OpeningList \/ CallEvaluateMoves \/ SearchRound \/ ReferenceRound

SearchSpec == SearchInit /\ [][SearchNext]_vars

(***************************************************************************)
(* main (ChessMain.py).  White is the human and black the search           *)
(* (lines 49-50).  The game played so far is the opening line less its     *)
(* last two moves, each move executed and followed by the block of lines   *)
(* 124-142 as the loop does for every move; the loop is then followed      *)
(* step by step: one action for each event handler (lines 60-81, 85-93,    *)
(* 94-105), one for the rest of an iteration (lines 107-160 and line 54 of *)
(* the next one), and one for a round of the search in the process         *)
(* started at line 113, which runs beside the loop.  The human clicks the  *)
(* line's last two white moves and presses z and r, MaxKeys times in all.  *)
(* The quit event is left out.                                             *)
(***************************************************************************)
DriverInit ==
    /\ Constructed
    /\ script \in {k \in 1..Len(Lines) : Lines[k] = MateThreat}

\* lines 36-51: valid_moves of the new game
Main ==
    /\ pc = "setup"
    /\ last_call = "init"
    /\ \E listed \in {get_valid_moves(self)} :
           /\ Becomes(listed.g)
           /\ returned' = listed.moves
           /\ raised' = listed.raised
    /\ last_call' = "get_valid_moves"
    /\ UNCHANGED <<script, ai_vars, main_vars>>

\* lines 126-135: the snapshot is counted.  Its last part is the default
\* text of the rights object (CastlePermissions, lines 564-572, defines no
\* text of its own), which holds the object's address and none of the four
\* values: it is the text of an earlier snapshot of the same board and side
\* only if the address is the same, which the allocator decides.  Each entry
\* of board_state_counts is a snapshot text (its board and side), the values
\* the rights had when the text was first recorded, and its count.
Counted(counts, board, white, rights) ==
    {[board_state_counts |-> [counts EXCEPT ![k].count = @ + 1],
      repeated |-> counts[k].count + 1 = 3] :
        k \in {j \in 1..Len(counts) : counts[j].chessboard = board
                                         /\ counts[j].is_white_turn = white}}
    \cup {[board_state_counts |->
               Append(counts, [chessboard |-> board, is_white_turn |-> white,
                               current_castle_rights |-> rights, count |-> 1]),
           repeated |-> FALSE]}

\* lines 124-142 and 148-157 for the game g, listed being what
\* get_valid_moves (line 139) makes of it: what main holds afterwards.  An
\* exception of line 139 ends main.
MoveMade(listed, g, counts, over) ==
    {[g |-> listed.g, valid_moves |-> listed.moves, raised |-> listed.raised,
      board_state_counts |-> counted.board_state_counts,
      game_over |-> IF listed.raised THEN over \/ counted.repeated
                    ELSE over \/ counted.repeated
                           \/ listed.g.is_checkmate \/ listed.g.is_stalemate] :
        counted \in Counted(counts, g.chessboard, g.is_white_turn,
                            g.current_castle_rights)}

\* A move of the game so far: execute_move, then lines 124-142.
Played ==
    /\ pc = "setup"
    /\ last_call = "get_valid_moves"
    /\ ~raised
    /\ Len(Lines[script]) - Len(move_history) > 2
    /\ \E i \in {j \in 1..Len(returned) :
                    returned[j].moveID = Lines[script][Len(move_history) + 1]} :
           \E g \in {execute_move(self, returned[i])} :
               \E after \in MoveMade(get_valid_moves(g), g, board_state_counts, game_over) :
                   /\ Becomes(after.g)
                   /\ returned' = after.valid_moves
                   /\ raised' = after.raised
                   /\ board_state_counts' = after.board_state_counts
                   /\ game_over' = after.game_over
    /\ UNCHANGED <<script, last_call, ai_vars, pc, ai_thinking, move_undone,
                   move_made, human_turn, move_finder_process, return_queue, keys>>

\* line 54, the first time
EnterLoop ==
    /\ pc = "setup"
    /\ last_call = "get_valid_moves"
    /\ ~raised
    /\ Len(Lines[script]) - Len(move_history) = 2
    /\ pc' = "events"
    /\ human_turn' = is_white_turn
    /\ UNCHANGED <<game_vars, script, last_call, returned, raised, ai_vars,
                   game_over, ai_thinking, move_undone, move_made,
                   board_state_counts, move_finder_process, return_queue, keys>>

\* move_finder_process.terminate()
terminate(process) ==
    IF process.status = "alive"
    THEN [process EXCEPT !.status = "terminated", !.cancelled = @ + 1]
    ELSE process

\* The key handlers without lines 90-92 and 102-104.
CancelSearchSkipped(thinking, process) ==
    [ai_thinking |-> thinking, move_finder_process |-> process]

\* lines 90-92 and 102-104
CancelSearch(thinking, process) ==
    [ai_thinking |-> FALSE,
     move_finder_process |-> IF thinking THEN terminate(process) ELSE process]

\* The search of a process: gone with the process when it is terminated.
SearchOf(process, running) ==
    IF process.status = "terminated" THEN NoSearch ELSE running

\* lines 85-93
KeyZ ==
    /\ pc = "events"
    /\ ~raised
    /\ keys < MaxKeys
    /\ \E g \in {undo_move(self)} : Becomes(g)
    /\ move_made' = TRUE
    /\ game_over' = FALSE
    /\ \E cancelled \in {CancelSearch(ai_thinking, move_finder_process)} :
           /\ ai_thinking' = cancelled.ai_thinking
           /\ move_finder_process' = cancelled.move_finder_process
           /\ search' = SearchOf(cancelled.move_finder_process, search)
    /\ move_undone' = TRUE
    /\ keys' = keys + 1
    /\ last_call' = "undo_move"
    /\ UNCHANGED <<script, returned, raised, reference, pc, human_turn,
                   board_state_counts, return_queue>>

\* lines 94-105
KeyR ==
    /\ pc = "events"
    /\ ~raised
    /\ keys < MaxKeys
    /\ \E listed \in {get_valid_moves(NewGame)} :
           /\ Becomes(listed.g)
           /\ returned' = listed.moves
           /\ raised' = listed.raised
    /\ move_made' = FALSE
    /\ game_over' = FALSE
    /\ \E cancelled \in {CancelSearch(ai_thinking, move_finder_process)} :
           /\ ai_thinking' = cancelled.ai_thinking
           /\ move_finder_process' = cancelled.move_finder_process
           /\ search' = SearchOf(cancelled.move_finder_process, search)
    /\ move_undone' = TRUE
    /\ keys' = keys + 1
    /\ last_call' = "get_valid_moves"
    /\ UNCHANGED <<script, reference, pc, human_turn, board_state_counts,
                   return_queue>>

\* The moves the human clicks: the last two white moves of the line.
HumanMoves ==
    {Lines[script][k] : k \in {j \in 1..Len(Lines[script]) :
                                   j % 2 = 1 /\ j + 2 >= Len(Lines[script])}}

\* lines 73-79: every entry of valid_moves equal to the move clicked is
\* executed (Move.__eq__ compares the moveID).
RECURSIVE Clicked(_, _, _, _)
Clicked(g, valid_moves, i, moveID) ==
    IF i > Len(valid_moves) \/ g.rights_ref < 0 THEN g
    ELSE Clicked(IF valid_moves[i].moveID = moveID
                 THEN execute_move(g, valid_moves[i]) ELSE g,
                 valid_moves, i + 1, moveID)

\* lines 60-81, the second click of a move that is in valid_moves (any
\* other click changes the selection only).  The human completes no move
\* in an iteration whose events have already made or undone one.
Click ==
    /\ pc = "events"
    /\ ~raised
    /\ ~move_made
    /\ ~game_over
    /\ human_turn
    /\ \E moveID \in HumanMoves :
           /\ \E i \in 1..Len(returned) : returned[i].moveID = moveID
           /\ \E g \in {Clicked(self, returned, 1, moveID)} : Becomes(g)
    /\ move_made' = TRUE
    /\ last_call' = "execute_move"
    /\ UNCHANGED <<script, returned, raised, ai_vars, pc, game_over, ai_thinking,
                   move_undone, human_turn, board_state_counts,
                   move_finder_process, return_queue, keys>>

\* ChessAI.py lines 94-97: calculateOptimalMove has shuffled its copy of the
\* list and called evaluateMoves on its copy of the game.
Dispatched(g, valid_moves) ==
    {Called(g, moves, SEARCH_DEPTH, FromInt(-WIN_SCORE), FromInt(WIN_SCORE),
            IF g.is_white_turn THEN 1 ELSE -1) : moves \in Shuffled(valid_moves)}

\* ChessMain.py lines 116-122: the move got from the queue is executed;
\* None is replaced by a move of valid_moves (findRandomMove, which raises
\* on an empty list).
Got(g, valid_moves, ai_move) ==
    IF ai_move # None THEN {[g |-> execute_move(g, ai_move), raised |-> FALSE]}
    ELSE IF valid_moves = <<>> THEN {[g |-> g, raised |-> TRUE]}
    ELSE {[g |-> execute_move(g, valid_moves[i]), raised |-> FALSE] :
              i \in 1..Len(valid_moves)}

\* lines 107-122 for main's locals m: what they are afterwards, and whether
\* main is held inside return_queue.get() (line 116, the queue being empty
\* and nothing left to fill it).
AIMoveFinder(g, valid_moves, m) ==
    IF m.game_over \/ m.human_turn \/ m.move_undone
    THEN {[m EXCEPT !.g = g]}
    ELSE IF ~m.ai_thinking
    THEN {[m EXCEPT !.g = g,
                    !.ai_thinking = TRUE,
                    !.return_queue = <<>>,
                    !.move_finder_process = [@ EXCEPT !.status = "alive", !.since = m.keys],
                    !.search = called] : called \in Dispatched(g, valid_moves)}
    ELSE IF m.move_finder_process.status = "alive"
    THEN {[m EXCEPT !.g = g]}
    ELSE IF m.return_queue = <<>>
    THEN {[m EXCEPT !.g = g, !.blocked = TRUE]}
    ELSE {[m EXCEPT !.g = got.g,
                    !.raised = got.raised,
                    !.return_queue = Tail(@),
                    !.move_made = IF got.raised THEN @ ELSE TRUE,
                    !.ai_thinking = IF got.raised THEN @ ELSE FALSE] :
              got \in Got(g, valid_moves, Head(m.return_queue))}

\* main's locals, for AIMoveFinder
Locals ==
    [g |-> self, game_over |-> game_over, human_turn |-> human_turn,
     move_undone |-> move_undone, ai_thinking |-> ai_thinking,
     move_made |-> move_made, return_queue |-> return_queue,
     move_finder_process |-> move_finder_process, search |-> search,
     keys |-> keys, blocked |-> FALSE, raised |-> FALSE]

\* lines 107-160 and line 54 of the next iteration
MainLoop ==
    /\ pc = "events"
    /\ ~raised
    /\ \E ai \in AIMoveFinder(self, returned, Locals) :
           /\ ai_thinking' = ai.ai_thinking
           /\ return_queue' = ai.return_queue
           /\ move_finder_process' = ai.move_finder_process
           /\ search' = ai.search
           /\ IF ai.blocked \/ ai.raised
              THEN /\ pc' = IF ai.blocked THEN "get" ELSE pc
                   /\ raised' = ai.raised
                   /\ UNCHANGED <<game_vars, last_call, returned, game_over,
                                  move_undone, move_made, human_turn,
                                  board_state_counts>>
              ELSE IF ai.move_made
              THEN \E after \in MoveMade(get_valid_moves(ai.g), ai.g,
                                         board_state_counts, game_over) :
                       /\ Becomes(after.g)
                       /\ returned' = after.valid_moves
                       /\ raised' = after.raised
                       /\ board_state_counts' = after.board_state_counts
                       /\ game_over' = after.game_over
                       /\ move_made' = after.raised
                       /\ move_undone' = (after.raised /\ move_undone)
                       /\ human_turn' = IF after.raised THEN human_turn
                                        ELSE after.g.is_white_turn
                       /\ last_call' = "get_valid_moves"
                       /\ pc' = pc
              ELSE /\ game_over' = (game_over \/ is_checkmate \/ is_stalemate)
                   /\ human_turn' = is_white_turn
                   /\ UNCHANGED <<game_vars, last_call, returned, raised,
                                  move_undone, move_made, board_state_counts, pc>>
    /\ UNCHANGED <<script, reference, keys>>

\* ChessAI.py lines 97-98 in the process: a round of evaluateMoves; when the
\* outermost call returns, best_move is put on the queue and the process
\* ends; an exception ends the process with nothing put.
Worker ==
    /\ move_finder_process.status = "alive"
    /\ search.status = "running"
    /\ \E next \in {evaluateMoves(search, TRUE)} :
           /\ search' = next
           /\ move_finder_process' =
                  [move_finder_process EXCEPT
                      !.status = IF next.status = "returned" THEN "exited"
                                 ELSE IF next.status = "raised" THEN "died"
                                 ELSE @]
           /\ return_queue' = IF next.status = "returned"
                              THEN Append(return_queue, next.best_move)
                              ELSE return_queue
    /\ UNCHANGED <<game_vars, script, last_call, returned, raised, reference,
                   pc, game_over, ai_thinking, move_undone, move_made,
                   human_turn, board_state_counts, keys>>

DriverNext ==
    Main \/ Played \/ EnterLoop \/ KeyZ \/ KeyR \/ Click \/ MainLoop \/ Worker

\* Worker can take a step.
WorkerRuns ==
    move_finder_process.status = "alive" /\ search.status = "running"

\* MainLoop can take a step that changes something: a move was made or
\* undone, the side to move is not the one line 54 saw, the game has ended,
\* or there is a search to start or a process that has ended.
MainLoopActs ==
    /\ pc = "events"
    /\ ~raised
    /\ \/ move_made
       \/ human_turn # is_white_turn
       \/ ~game_over /\ (is_checkmate \/ is_stalemate)
       \/ /\ ~game_over /\ ~human_turn /\ ~move_undone
          /\ ~ai_thinking \/ move_finder_process.status # "alive"

\* The loop goes on iterating and the process goes on running (weak
\* fairness of MainLoop and of Worker, with their enabling conditions
\* written out); nothing makes the human click or press a key.
MainFair ==
    /\ WF_vars(EnterLoop)
    /\ []<>(~MainLoopActs) \/ []<><<MainLoop>>_vars
    /\ []<>(~WorkerRuns) \/ []<><<Worker>>_vars

DriverSpec == DriverInit /\ [][DriverNext]_vars /\ MainFair

(***************************************************************************)
(* The rules of chess the claims are stated against, read off the board    *)
(* alone: none of these uses the generators above.                         *)
(***************************************************************************)
Other(colour) == IF colour = "w" THEN "b" ELSE "w"

\* How far the nearest piece stands from (row, col) along (dr, dc); 0 if the
\* ray is empty up to the edge of the board.
NearestStep(board, row, col, dr, dc) ==
    LET occupied == {i \in 1..7 : /\ OnBoard(row + i * dr, col + i * dc)
                                  /\ board[row + i * dr][col + i * dc] # "--"}
    IN  IF occupied = {} THEN 0
        ELSE CHOOSE i \in occupied : \A j \in occupied : i <= j

\* A piece of colour by attacks the square (row, col).
Attacked(board, by, row, col) ==
    LET Is(r, c, kind) ==
            OnBoard(r, c) /\ Colour(board[r][c]) = by /\ Kind(board[r][c]) = kind
        pawn_row == IF by = "w" THEN row + 1 ELSE row - 1
        Along(dr, dc, kind) ==
            LET n == NearestStep(board, row, col, dr, dc)
            IN  n # 0 /\ (Is(row + n * dr, col + n * dc, kind)
                          \/ Is(row + n * dr, col + n * dc, "Q"))
    IN  \/ Is(pawn_row, col - 1, "P") \/ Is(pawn_row, col + 1, "P")
        \/ \E dr \in {-2, -1, 1, 2} : \E dc \in {-2, -1, 1, 2} :
               Abs(dr) # Abs(dc) /\ Is(row + dr, col + dc, "N")
        \/ \E dr \in {-1, 0, 1} : \E dc \in {-1, 0, 1} :
               (dr # 0 \/ dc # 0) /\ Is(row + dr, col + dc, "K")
        \/ \E dr \in {-1, 0, 1} : \E dc \in {-1, 0, 1} :
               /\ (dr # 0 \/ dc # 0)
               /\ Along(dr, dc, IF dr = 0 \/ dc = 0 THEN "R" ELSE "B")

\* The squares of the board holding piece.
SquaresOf(board, piece) ==
    {sq \in Rows \X Rows : board[sq[1]][sq[2]] = piece}

King(colour) == IF colour = "w" THEN "wK" ELSE "bK"

\* The fields the reversibility claim names.
Position(g) ==
    <<g.chessboard, g.is_white_turn, g.white_king_pos, g.black_king_pos,
      g.enpassant_possible, g.current_castle_rights>>

Mover == IF is_white_turn THEN "w" ELSE "b"

(***************************************************************************)
(* C1.  Reversibility: in every position reached by execute_move,          *)
(* undo_move and get_valid_moves calls, right after an undo_move included, *)
(* and for every legal move m of the position, execute_move(m) followed by *)
(* undo_move() restores the board, the side to move, both cached king      *)
(* squares, the en-passant target and the four castling rights.            *)
(***************************************************************************)
C1_Reversibility ==
    ~raised =>
        LET moves == HeldMoves
        IN  \A i \in 1..Len(moves) :
                Position(undo_move(execute_move(self, moves[i]))) = Position(self)

(***************************************************************************)
(* C2.  Legal-move soundness: after execute_move(m) of any move m that     *)
(* get_valid_moves returned, the king of the side that moved is attacked   *)
(* by no enemy piece.                                                      *)
(***************************************************************************)
C2_LegalMoveSoundness ==
    last_call = "get_valid_moves" =>
        \A i \in 1..Len(returned) :
            LET after == execute_move(self, returned[i]).chessboard
            IN  \A sq \in SquaresOf(after, King(Mover)) :
                    ~Attacked(after, Other(Mover), sq[1], sq[2])

(***************************************************************************)
(* C3.  Terminal-state detection: get_valid_moves returns normally; when   *)
(* the legal set it computed is empty, is_checkmate is set and             *)
(* is_stalemate clear if the side to move is in check, and the other way   *)
(* round if it is not; when the set is not empty both flags are clear.     *)
(***************************************************************************)
C3_TerminalDetection ==
    last_call = "get_valid_moves" =>
        /\ ~raised
        /\ Len(returned) = 0 =>
               IF \E sq \in SquaresOf(chessboard, King(Mover)) :
                      Attacked(chessboard, Other(Mover), sq[1], sq[2])
               THEN is_checkmate /\ ~is_stalemate
               ELSE is_stalemate /\ ~is_checkmate
        /\ Len(returned) # 0 => ~is_checkmate /\ ~is_stalemate

(***************************************************************************)
(* C4.  King-cache consistency: whenever execute_move, undo_move or        *)
(* get_valid_moves has returned, white_king_pos is the square of the board *)
(* holding "wK" and black_king_pos the square holding "bK".                *)
(***************************************************************************)
C4_KingCache ==
    ~raised =>
        /\ chessboard[white_king_pos[1]][white_king_pos[2]] = "wK"
        /\ chessboard[black_king_pos[1]][black_king_pos[2]] = "bK"

(***************************************************************************)
(* C5.  In every state reached by executing moves get_valid_moves returned *)
(* (and undoing them) the board holds exactly one white king and exactly   *)
(* one black king, and no move get_valid_moves returns captures a king.    *)
(***************************************************************************)
C5_OneKingEach ==
    /\ Cardinality(SquaresOf(chessboard, "wK")) = 1
    /\ Cardinality(SquaresOf(chessboard, "bK")) = 1
    /\ \A i \in 1..Len(returned) : Kind(returned[i].piece_captured) # "K"

\* The pieces of the side to move pinned to their king: the square, the
\* direction from the king, and how far from the king the pinning piece is.
TruePins(board, colour) ==
    {pin \in (Rows \X Rows) \X ({-1, 0, 1} \X {-1, 0, 1}) \X (2..7) :
        \E king \in SquaresOf(board, King(colour)) :
            LET dr == pin[2][1]
                dc == pin[2][2]
                n1 == NearestStep(board, king[1], king[2], dr, dc)
                n2 == NearestStep(board, pin[1][1], pin[1][2], dr, dc)
                far == board[king[1] + pin[3] * dr][king[2] + pin[3] * dc]
            IN  /\ dr # 0 \/ dc # 0
                /\ n1 # 0 /\ n2 # 0 /\ pin[3] = n1 + n2
                /\ pin[1] = <<king[1] + n1 * dr, king[2] + n1 * dc>>
                /\ Colour(board[pin[1][1]][pin[1][2]]) = colour
                /\ Colour(far) = Other(colour)
                /\ Kind(far) \in {"Q", IF dr = 0 \/ dc = 0 THEN "R" ELSE "B"}}

\* The squares of the line of pin: from the king to the pinning piece.
PinLine(board, colour, pin) ==
    {sq \in Rows \X Rows :
        \E king \in SquaresOf(board, King(colour)) : \E t \in 1..pin[3] :
            sq = <<king[1] + t * pin[2][1], king[2] + t * pin[2][2]>>}

EndSquares(moves, from) ==
    {<<moves[i].end_row, moves[i].end_col>> :
        i \in {k \in 1..Len(moves) :
                  moves[k].start_row = from[1] /\ moves[k].start_col = from[2]}}

MoverInCheck ==
    \E sq \in SquaresOf(chessboard, King(Mover)) :
        Attacked(chessboard, Other(Mover), sq[1], sq[2])

(***************************************************************************)
(* C6.  Pin enforcement: in a position where the side to move is not in    *)
(* check, the moves get_valid_moves returns for a piece pinned to its king *)
(* are exactly the moves the piece has when nothing is pinned that end on  *)
(* the line of pin (a pinned pawn advances along the file whichever side   *)
(* of it the king stands; a pinned knight has none).                       *)
(***************************************************************************)
C6_PinEnforcement ==
    (last_call = "get_valid_moves" /\ ~raised /\ ~MoverInCheck) =>
        \A pin \in TruePins(chessboard, Mover) :
            EndSquares(returned, pin[1])
                = EndSquares(move_handlers(self, <<>>, pin[1][1], pin[1][2]).moves, pin[1])
                  \cap PinLine(chessboard, Mover, pin)

\* Taking en passant with move takes both pawns off the rank of the mover's
\* king and leaves the king attacked along it by a rook or a queen.
ExposedByEnPassant(move) ==
    \E king \in SquaresOf(chessboard, King(Mover)) :
        /\ king[1] = move.start_row
        /\ LET board == Put(Put(chessboard, move.start_row, move.start_col, "--"),
                            move.start_row, move.end_col, "--")
               side == IF move.start_col > king[2] THEN 1 ELSE -1
               n == NearestStep(board, king[1], king[2], 0, side)
               piece == board[king[1]][king[2] + n * side]
           IN  n # 0 /\ Colour(piece) = Other(Mover) /\ Kind(piece) \in {"R", "Q"}

(***************************************************************************)
(* C7.  En-passant exposure: get_valid_moves returns no en-passant capture *)
(* whose pawn stands on the rank of its own king when taking both pawns    *)
(* off that rank leaves the king attacked along it by an enemy rook or     *)
(* queen, whatever stands further along the rank.                          *)
(***************************************************************************)
C7_EnPassantExposure ==
    last_call = "get_valid_moves" =>
        \A i \in 1..Len(returned) :
            returned[i].is_enpassant_move => ~ExposedByEnPassant(returned[i])

(***************************************************************************)
(* C8.  Castling generation: get_valid_moves returns a castle move only if *)
(* the right for that side and wing is held, the squares between king and  *)
(* rook are empty, and the king's square, the square it passes over and    *)
(* the square it lands on are attacked by no enemy piece (a pawn's         *)
(* diagonal attack on an empty square and the enemy king included).        *)
(***************************************************************************)
C8_CastlingGeneration ==
    last_call = "get_valid_moves" =>
        \A i \in 1..Len(returned) :
            returned[i].is_castle_move =>
                LET row == returned[i].start_row
                    col == returned[i].start_col
                    side == IF returned[i].end_col > col THEN 1 ELSE -1
                    rights == current_castle_rights
                IN  /\ IF side = 1
                       THEN IF is_white_turn THEN rights.wks ELSE rights.bks
                       ELSE IF is_white_turn THEN rights.wqs ELSE rights.bqs
                    /\ \A c \in 1..6 : (side = 1 /\ c > col) \/ (side = -1 /\ c < col)
                                          => chessboard[row][c] = "--"
                    /\ \A k \in 0..2 :
                           ~Attacked(chessboard, Other(Mover), row, col + k * side)

\* sq is on the ray of check, strictly between king and the checking piece.
BetweenKingAndAttacker(king, check, sq) ==
    \E t \in 1..7 : \E n \in 2..7 :
        /\ t < n
        /\ sq = <<king[1] + t * check[3], king[2] + t * check[4]>>
        /\ <<check[1], check[2]>> = <<king[1] + n * check[3], king[2] + n * check[4]>>

(***************************************************************************)
(* C9.  Check resolution: when get_valid_moves finds one checking piece,   *)
(* every move it returns of a piece that is not the king ends on the       *)
(* square of that piece or strictly between it and the king on the ray of  *)
(* check, and it returns no castle move; when it finds two or more         *)
(* checking pieces, every move it returns is a king move.                  *)
(***************************************************************************)
C9_CheckResolution ==
    last_call = "get_valid_moves" =>
        LET attackers == check_for_pins_and_checks(self).checks
            king == KingPos(self)
        IN  /\ Len(attackers) = 1 =>
                   \A i \in 1..Len(returned) :
                       /\ ~returned[i].is_castle_move
                       /\ Kind(returned[i].piece_moved) # "K" =>
                              LET sq == <<returned[i].end_row, returned[i].end_col>>
                              IN  \/ sq = <<attackers[1][1], attackers[1][2]>>
                                  \/ BetweenKingAndAttacker(king, attackers[1], sq)
            /\ Len(attackers) >= 2 =>
                   \A i \in 1..Len(returned) : Kind(returned[i].piece_moved) = "K"

\* One checking piece was found and a move that puts a piece between it and
\* the king was returned.
C9_Witness ==
    /\ last_call = "get_valid_moves"
    /\ Len(check_for_pins_and_checks(self).checks) = 1
    /\ \E i \in 1..Len(returned) :
           /\ Kind(returned[i].piece_moved) # "K"
           /\ BetweenKingAndAttacker(KingPos(self), check_for_pins_and_checks(self).checks[1],
                                     <<returned[i].end_row, returned[i].end_col>>)

\* the number of moves get_valid_moves returns after execute_move(moves[i])
Replies(g, moves, i) ==
    Len(get_valid_moves(execute_move(g, moves[i])).moves)

(***************************************************************************)
(* C10.  Perft: on a freshly constructed game get_valid_moves returns 20   *)
(* moves, and the numbers of moves it returns after execute_move of each   *)
(* of them add up to 400.                                                  *)
(***************************************************************************)
C10_Perft ==
    (Len(move_history) = 0 /\ ~raised) =>
        LET first == get_valid_moves(self)
        IN  /\ Len(first.moves) = 20
            /\ Cardinality(UNION {{i} \X (1..Replies(first.g, first.moves, i)) :
                                      i \in 1..Len(first.moves)}) = 400

\* get_valid_moves has returned 20 moves after the first move of a fresh game
C10_Witness ==
    /\ Len(move_history) = 1
    /\ last_call = "get_valid_moves"
    /\ Len(returned) = 20

(***************************************************************************)
(* Castling rights.                                                        *)
(***************************************************************************)
\* The home corner of the rook of a right: row 7 for White and row 0 for
\* Black, column 0 on the queenside and column 7 on the kingside.
HomeCorner ==
    [wks |-> <<7, 7>>, wqs |-> <<7, 0>>, bks |-> <<0, 7>>, bqs |-> <<0, 0>>]

RightColour ==
    [wks |-> "w", wqs |-> "w", bks |-> "b", bqs |-> "b"]

RightNames == {"wks", "wqs", "bks", "bqs"}

\* The move takes the right away: it moves the king of the colour, moves a
\* rook of the colour off the home corner of the wing, or captures a rook of
\* the colour that stands on that corner.
TakesAway(move, right) ==
    LET colour == RightColour[right]
        king == IF colour = "w" THEN "wK" ELSE "bK"
        rook == IF colour = "w" THEN "wR" ELSE "bR"
    IN  \/ move.piece_moved = king
        \/ /\ move.piece_moved = rook
           /\ <<move.start_row, move.start_col>> = HomeCorner[right]
        \/ /\ move.piece_captured = rook
           /\ <<move.end_row, move.end_col>> = HomeCorner[right]

\* C11: execute_move of a legal move takes a castling right away exactly
\* when the move moves the king of the colour, moves the rook off the home
\* corner of the wing or captures a rook standing on that corner; every
\* other right keeps its value, so that a capture of a rook on the a- or
\* h-file off its home rank takes no right away.
C11_RightsTransition ==
    (last_call = "get_valid_moves" /\ ~raised) =>
        \A i \in 1..Len(returned) :
            \A right \in RightNames :
                execute_move(self, returned[i]).current_castle_rights[right]
                    = (current_castle_rights[right] /\ ~TakesAway(returned[i], right))

\* execute_move(move) and then undo_move() leave the four rights as they were.
UndoRestoresRights(g, move) ==
    undo_move(execute_move(g, move)).current_castle_rights = g.current_castle_rights

\* C12: a step of execute_move or get_valid_moves never turns a castling
\* right from false to true, and undo_move gives the four rights exactly the
\* values they had immediately before the undone move was executed.
C12_RightsMonotone ==
    /\ [][last_call' \in {"execute_move", "get_valid_moves"} =>
              \A right \in RightNames :
                  current_castle_rights'[right] => current_castle_rights[right]]_vars
    /\ [](~raised =>
              \E moves \in {HeldMoves} :
                  \A i \in 1..Len(moves) : UndoRestoresRights(self, moves[i]))

\* C13: undo_move on an empty move history changes nothing (board, side to
\* move, king squares, en-passant target and log, castling rights and log,
\* checkmate and stalemate flags) and raises no error.
C13_UndoOnEmptyHistory ==
    [][(last_call' = "undo_move" /\ Len(move_history) = 0) =>
           /\ UNCHANGED <<chessboard, is_white_turn, white_king_pos, black_king_pos,
                          move_history, enpassant_possible, enpassant_log,
                          current_castle_rights, castle_rights_log, rights_ref,
                          is_checkmate, is_stalemate>>
           /\ ~raised']_vars

\* undo_move has returned on a game no move was ever undone in and whose
\* history is empty.
C13_Witness ==
    /\ last_call = "undo_move"
    /\ move_history = <<>>
    /\ rights_ref = 0

(***************************************************************************)
(* The evaluation.                                                         *)
(***************************************************************************)
\* C19: for a position with no legal move, after get_valid_moves has been
\* called on it, score_board returns -WIN_SCORE when the side to move is
\* White and in check, +WIN_SCORE when it is Black and in check, and exactly
\* DRAW_SCORE when it is not in check.
C19_TerminalScores ==
    (last_call = "get_valid_moves" /\ Len(returned) = 0) =>
        score_board(self) =
            IF MoverInCheck
            THEN (IF is_white_turn THEN FromInt(-WIN_SCORE) ELSE FromInt(WIN_SCORE))
            ELSE FromInt(DRAW_SCORE)

\* The piece with its colour swapped.
SwapColour(piece) ==
    CASE piece = "wP" -> "bP" [] piece = "bP" -> "wP"
      [] piece = "wR" -> "bR" [] piece = "bR" -> "wR"
      [] piece = "wN" -> "bN" [] piece = "bN" -> "wN"
      [] piece = "wB" -> "bB" [] piece = "bB" -> "wB"
      [] piece = "wQ" -> "bQ" [] piece = "bQ" -> "wQ"
      [] piece = "wK" -> "bK" [] piece = "bK" -> "wK"
      [] OTHER -> piece

\* The position reflected top to bottom (row r to row 7 - r) with the
\* colours swapped.
Mirror(g) ==
    [g EXCEPT !.chessboard =
                  [row \in Rows |-> [col \in Rows |-> SwapColour(g.chessboard[7 - row][col])]],
              !.is_white_turn = ~@]

\* C20: for every position that has a legal move, score_board of the
\* mirrored position is the negation of score_board of the position.
C20_ColourSymmetry ==
    (last_call = "get_valid_moves" /\ ~raised /\ Len(returned) > 0) =>
        score_board(Mirror(self)) = FNeg(score_board(self))

(***************************************************************************)
(* The search.                                                             *)
(***************************************************************************)
\* The fields the search is to leave as it found them.
SearchFields(g) ==
    <<g.chessboard, g.is_white_turn, g.white_king_pos, g.black_king_pos,
      g.move_history, g.enpassant_possible, g.enpassant_log,
      g.current_castle_rights, g.castle_rights_log>>

\* C14: when evaluateMoves returns, the board, the side to move, the king
\* squares, the move history, the en-passant target and log and the castling
\* rights and their log are what they were when it was called; and between
\* the rounds of a loop (an inner call has returned or the loop was cut off)
\* they are what they were when that call started, so that each candidate of
\* a node is applied to the position the first candidate was applied to.
C14_SearchRestoresState ==
    /\ search.status = "returned" =>
           SearchFields(search.game_state) = SearchFields(self)
    /\ search.status = "running" =>
           SearchFields(search.game_state) = SearchFields(Last(search.frames).at_call)

\* C15: with the moves in the order given, evaluateMoves called with the
\* full window (-WIN_SCORE, +WIN_SCORE) to a depth up to SEARCH_DEPTH returns
\* the score that the same recursion returns with the alpha >= beta cutoff
\* removed.
C15_PruningEquivalence ==
    (search.status = "returned" /\ reference.status # "running") =>
        /\ reference.status = "returned"
        /\ reference.score = search.score

(***************************************************************************)
(* main and the search process.                                            *)
(***************************************************************************)
\* C16: when calculateOptimalMove has been called with a list of legal moves
\* that is not empty and its process has ended, what it has put on the
\* result queue is a move of that list, not None and not nothing.
C16_SearchProducesMove ==
    (ai_thinking /\ returned # <<>>
        /\ move_finder_process.status \in {"exited", "died"}) =>
        /\ Len(return_queue) = 1
        /\ return_queue[1] # None
        /\ \E i \in 1..Len(returned) : returned[i] = return_queue[1]

\* A step of main that executes a move of the search.
AIMoveExecuted ==
    Len(move_history') > Len(move_history) /\ pc = "events" /\ ~human_turn

\* C17: a move of the search is executed only as the one result read for a
\* dispatch: the process of that dispatch has ended by itself, no z or r has
\* been pressed since it was started, it searched the position the move is
\* applied to, the move is the one result on its queue, and the read ends
\* the dispatch (ai_thinking is cleared, a later read needs a new dispatch,
\* which starts with a new empty queue).  Every z and r leaves no process
\* running and no dispatch open.
C17_SearchCancellation ==
    [][/\ AIMoveExecuted =>
              /\ ai_thinking /\ ~ai_thinking'
              /\ move_finder_process.status = "exited"
              /\ move_finder_process.since = keys
              /\ search.game_state.move_history = move_history
              /\ search.game_state.chessboard = chessboard
              /\ Len(return_queue) = 1
              /\ return_queue' = <<>>
              /\ Last(move_history').moveID = return_queue[1].moveID
       /\ keys' # keys =>
              /\ ~ai_thinking'
              /\ move_finder_process'.status # "alive"
       /\ (~ai_thinking /\ ai_thinking') =>
              /\ return_queue' = <<>>
              /\ move_finder_process'.status = "alive"
              /\ move_finder_process'.since = keys
       /\ (ai_thinking /\ Len(return_queue') < Len(return_queue)) =>
              (AIMoveExecuted /\ ~ai_thinking')]_vars

\* A search was cancelled by a key while its process ran, and the move of a
\* later search has been read and executed.
C17_Witness ==
    /\ move_finder_process.cancelled > 0
    /\ move_finder_process.status = "exited"
    /\ move_finder_process.since = keys
    /\ ~ai_thinking
    /\ return_queue = <<>>
    /\ Len(move_history) = Len(Lines[script]) - 1

\* C18: whenever main finds the process no longer alive, the queue holds a
\* result, so that main is never held inside return_queue.get(); and every
\* dispatch is in time closed, by the move of the search being executed
\* unless a key cancels it, also when the tree searched holds positions
\* without legal moves.
C18_NonBlockingCompletion ==
    /\ []((ai_thinking /\ move_finder_process.status # "alive") =>
             return_queue # <<>>)
    /\ [](pc # "get")
    /\ (ai_thinking ~> ~ai_thinking)

\* C21: the snapshot recorded after a move is a function of the board, the
\* side to move and the values of the four castling rights only: two
\* recordings of game states equal in these three are recordings of one
\* snapshot, so that board_state_counts holds one entry for them, whose count
\* is the number of times the state was recorded.
C21_RepetitionSnapshot ==
    \A i, j \in 1..Len(board_state_counts) :
        (/\ board_state_counts[i].chessboard = board_state_counts[j].chessboard
         /\ board_state_counts[i].is_white_turn = board_state_counts[j].is_white_turn
         /\ board_state_counts[i].current_castle_rights
                = board_state_counts[j].current_castle_rights) => i = j

\* The text ends in the given characters.
EndsIn(text, ending) ==
    /\ Len(text) >= Len(ending)
    /\ SubSeq(text, Len(text) - Len(ending) + 1, Len(text)) = ending

\* C22: of every move get_valid_moves returns, a castle move is written
\* "0-0" toward the h-file and "0-0-0" toward the a-file by both
\* get_chess_notation and __str__, the notation of a promotion, by capture
\* or not, ends in "Q", and the notation of an en passant capture ends in
\* "e.p.".
C22_MoveNotation ==
    \A i \in 1..Len(returned) :
        \A text \in {get_chess_notation(returned[i]), Move_str(returned[i])} :
            /\ returned[i].is_castle_move =>
                   text = (IF returned[i].end_col > returned[i].start_col
                           THEN <<"0", "-", "0">>
                           ELSE <<"0", "-", "0", "-", "0">>)
            /\ returned[i].is_pawn_promotion => EndsIn(text, <<"Q">>)
            /\ returned[i].is_enpassant_move => EndsIn(text, <<"e", ".", "p", ".">>)

\* C23: evaluateMoves called with depth > 0 on a position without legal
\* moves (the list it is given is empty) returns turn_factor times
\* score_board of the position, which is 0 when the side to move is
\* stalemated and -WIN_SCORE when it is checkmated.
C23_TerminalAboveLeaf ==
    (/\ search.status = "returned"
     /\ Len(returned) = 0
     /\ Len(move_history) = Len(Lines[script])) =>
        /\ search.score = FTimes(IF is_white_turn THEN 1 ELSE -1, score_board(self))
        /\ search.score = IF MoverInCheck THEN FromInt(-WIN_SCORE) ELSE FromInt(0)

\* C24: a call of get_valid_moves that returns leaves the board, the side
\* to move, both cached king squares, the move history, the en-passant
\* target and its log, the values of the four rights and the rights log as
\* they were: every trial placement of the king and every flip of the side
\* to move made on the way is undone.
C24_GetValidMovesReadOnly ==
    [][(last_call' = "get_valid_moves" /\ ~raised') =>
           /\ chessboard' = chessboard
           /\ is_white_turn' = is_white_turn
           /\ white_king_pos' = white_king_pos
           /\ black_king_pos' = black_king_pos
           /\ move_history' = move_history
           /\ enpassant_possible' = enpassant_possible
           /\ enpassant_log' = enpassant_log
           /\ current_castle_rights' = current_castle_rights
           /\ castle_rights_log' = castle_rights_log]_vars

\* get_valid_moves has returned a list with a king move (the king was put
\* on other squares and back) and a castle move (is_square_attacked flipped
\* the side to move and flipped it back).
C24_Witness ==
    /\ last_call = "get_valid_moves"
    /\ ~raised
    /\ \E i, j \in 1..Len(returned) :
           /\ returned[i].is_castle_move
           /\ Kind(returned[j].piece_moved) = "K" /\ ~returned[j].is_castle_move

\* C25: after any sequence of execute_move and undo_move calls, undo_move
\* on an empty history included, enpassant_log and castle_rights_log are one
\* longer than move_history, enpassant_possible is the last entry of
\* enpassant_log, the values of current_castle_rights are those of the last
\* entry of castle_rights_log, and White is to move exactly when the length
\* of move_history is even.
C25_HistoryStacksAligned ==
    /\ Len(enpassant_log) = Len(move_history) + 1
    /\ Len(castle_rights_log) = Len(move_history) + 1
    /\ enpassant_possible = Last(enpassant_log)
    /\ current_castle_rights = Last(castle_rights_log)
    /\ is_white_turn <=> Len(move_history) % 2 = 0

\* A move that takes rights away or sets an en-passant target has been
\* executed right after an undo_move, or undone.
C25_Witness ==
    \/ /\ last_call = "execute_move"
       /\ rights_ref > 0
       /\ current_castle_rights # castle_rights_log[1]
    \/ /\ last_call = "undo_move"
       /\ Len(move_history) > 0
       /\ enpassant_possible # <<>>

\* C26: execute_move only appends to castle_rights_log: the entries the log
\* held before the call have the values they had, also when the call is
\* made right after undo_move.
C26_RightsLogAppendOnly ==
    [][last_call' = "execute_move" =>
           /\ Len(castle_rights_log') = Len(castle_rights_log) + 1
           /\ SubSeq(castle_rights_log', 1, Len(castle_rights_log)) = castle_rights_log]_vars

\* C27: the list get_valid_moves returns holds no two moves with the same
\* start square and the same end square, so at most one entry of it equals
\* the move a click asks for.
C27_NoDuplicateMoves ==
    \A i, j \in 1..Len(returned) :
        (/\ returned[i].start_row = returned[j].start_row
         /\ returned[i].start_col = returned[j].start_col
         /\ returned[i].end_row = returned[j].end_row
         /\ returned[i].end_col = returned[j].end_col) => i = j

\* get_valid_moves has returned a list in which a pawn has an en passant
\* capture beside another move, and a queen has moves of both kinds.
C27_Witness ==
    /\ last_call = "get_valid_moves"
    /\ \E i, j \in 1..Len(returned) :
           /\ returned[i].is_enpassant_move
           /\ returned[j].start_row = returned[i].start_row
           /\ returned[j].start_col = returned[i].start_col
           /\ returned[j].moveID # returned[i].moveID
    /\ \E i, j \in 1..Len(returned) :
           /\ Kind(returned[i].piece_moved) = "Q"
           /\ returned[j].start_row = returned[i].start_row
           /\ returned[j].start_col = returned[i].start_col
           /\ returned[i].start_row = returned[i].end_row
           /\ returned[j].start_row # returned[j].end_row

\* C28: in every state reached by executing moves get_valid_moves returned
\* and undoing them, a castling right that is held has that colour's king on
\* its home square (e1, e8) and that colour's rook on the home corner of
\* that wing.
C28_HeldRightHasKingAndRook ==
    \A right \in RightNames :
        current_castle_rights[right] =>
            /\ chessboard[HomeCorner[right][1]][4] = King(RightColour[right])
            /\ chessboard[HomeCorner[right][1]][HomeCorner[right][2]]
                   = (IF RightColour[right] = "w" THEN "wR" ELSE "bR")

\* A move has been undone in a game where one right is held and another
\* has been lost.
C28_Witness ==
    /\ last_call = "undo_move"
    /\ Len(move_history) > 0
    /\ \E held, lost \in RightNames :
           current_castle_rights[held] /\ ~current_castle_rights[lost]

====
